---------------------------- MODULE Spec2Model ----------------------------
(***************************************************************************)
(* A model of gyst's repository-state analysis layer:                      *)
(*   src/src/git/mod.rs     staged-change extraction and structured diff   *)
(*   src/src/branch/mod.rs  branch-health analysis and its report          *)
(*   src/src/main.rs        the commit command's diff reconstruction       *)
(*                                                                         *)
(* The git2 library is the environment.  Its answers are modelled by what  *)
(* libgit2 documents: the status list and the patch callback stream are    *)
(* two views of the same index-vs-HEAD difference, the all-zero object id  *)
(* names no object, a revision walk yields commits newest first.           *)
(***************************************************************************)
EXTENDS Integers, Sequences, FiniteSets, TLC

VARIABLES
    repo_head,      \* "commit" when HEAD resolves, "unborn" before the first commit
    repo_index,     \* the index-vs-HEAD difference: a sequence of changed paths
    commits,        \* the commit graph: id -> [parents, time, author]
    branches,       \* the branch references, in the order git2 enumerates them
    now,            \* SystemTime::now() in seconds since the epoch
    call            \* the call that has completed, with its arguments and result

vars == <<repo_head, repo_index, commits, branches, now, call>>

(***************************************************************************)
(* Bounds of the model.                                                    *)
(***************************************************************************)
MaxChanges == 2     \* changed paths in the index
MaxHunks == 2       \* hunks of one file delta
MaxLines == 2       \* lines of one hunk
MaxCommits == 3     \* commits of the repository

(***************************************************************************)
(* anyhow::Result                                                          *)
(***************************************************************************)
Ok(v) == [ok |-> TRUE, val |-> v]
Err(e) == [ok |-> FALSE, err |-> e]

NoCall == [op |-> "none"]

\* Option
Some(v) == [some |-> TRUE, val |-> v]

RECURSIVE Concat(_)
Concat(ss) == IF ss = <<>> THEN <<>> ELSE Head(ss) \o Concat(Tail(ss))

RECURSIVE SumSeq(_)
SumSeq(ns) == IF ns = <<>> THEN 0 ELSE Head(ns) + SumSeq(Tail(ns))

(***************************************************************************)
(* The repository as git2 reports it.                                      *)
(*                                                                         *)
(* One changed path of the index is [kind, hunks, lines]: kind is the way  *)
(* the index entry differs from HEAD, hunks the number of hunks of its     *)
(* delta and lines the number of lines of each hunk.                       *)
(***************************************************************************)
Kinds == {"new", "modified", "deleted", "renamed", "renamed_modified",
          "renamed_nodelta", "typechange", "wt_modified"}

\* Before the first commit every index entry is new.
UnbornKinds == {"new", "wt_modified"}

HunkRange(kind) ==
    CASE kind = "new" -> {0, 1}
      [] kind = "modified" -> 0..MaxHunks
      [] kind = "deleted" -> {0, 1}
      [] kind = "renamed_modified" -> 1..MaxHunks
      [] kind = "typechange" -> {1}
      [] OTHER -> {0}

ChangeSet(kinds) ==
    {c \in [kind : kinds, hunks : 0..MaxHunks, lines : 1..MaxLines] :
        /\ c.hunks \in HunkRange(c.kind)
        /\ c.hunks = 0 => c.lines = 1}

IndexStates(kinds) ==
    UNION {[1..n -> ChangeSet(kinds)] : n \in 0..MaxChanges}

PathOf(i) == <<"file", i>>
OldPathOf(i) == <<"old", i>>

\* git2::Status bits of an entry.
StatusBits(kind) ==
    CASE kind = "new" -> {"INDEX_NEW"}
      [] kind = "modified" -> {"INDEX_MODIFIED"}
      [] kind = "deleted" -> {"INDEX_DELETED"}
      [] kind = "renamed" -> {"INDEX_RENAMED"}
      [] kind = "renamed_modified" -> {"INDEX_RENAMED", "INDEX_MODIFIED"}
      [] kind = "renamed_nodelta" -> {"INDEX_RENAMED"}
      [] kind = "typechange" -> {"INDEX_TYPECHANGE"}
      [] kind = "wt_modified" -> {"WT_MODIFIED"}

NoDelta == [present |-> FALSE]

HeadToIndex(kind, i) ==
    CASE kind \in {"renamed", "renamed_modified"} ->
            [present |-> TRUE, old_path |-> OldPathOf(i), new_path |-> PathOf(i)]
      [] kind \in {"renamed_nodelta", "wt_modified"} -> NoDelta
      [] OTHER -> [present |-> TRUE, old_path |-> PathOf(i), new_path |-> PathOf(i)]

\* repo.statuses(opts): one entry per changed path, in path order.
Statuses(index) ==
    [i \in 1..Len(index) |->
        [path |-> PathOf(i),
         status |-> StatusBits(index[i].kind),
         head_to_index |-> HeadToIndex(index[i].kind, i)]]

is_index_new(status) == "INDEX_NEW" \in status
is_index_modified(status) == "INDEX_MODIFIED" \in status
is_index_deleted(status) == "INDEX_DELETED" \in status
is_index_renamed(status) == "INDEX_RENAMED" \in status
is_index_typechange(status) == "INDEX_TYPECHANGE" \in status


(***************************************************************************)
(* The index-vs-HEAD diff and its patch callback stream.                   *)
(*                                                                         *)
(* diff_tree_to_index is called with default options: no rename detection  *)
(* is asked for there, yet a Renamed delta is kept in the model because    *)
(* get_structured_diff has a branch for it.  A type change is reported,    *)
(* without INCLUDE_TYPECHANGE, as a deletion followed by an addition.      *)
(***************************************************************************)
Delta(status, i, c) == [status |-> status, file |-> i, hunks |-> c.hunks, lines |-> c.lines]

DeltasOfChange(i, c) ==
    CASE c.kind = "new" -> <<Delta("Added", i, c)>>
      [] c.kind = "modified" -> <<Delta("Modified", i, c)>>
      [] c.kind = "deleted" -> <<Delta("Deleted", i, c)>>
      [] c.kind \in {"renamed", "renamed_modified"} -> <<Delta("Renamed", i, c)>>
      [] c.kind = "typechange" -> <<Delta("Deleted", i, c), Delta("Added", i, c)>>
      [] OTHER -> <<>>

Deltas(index) == Concat([i \in 1..Len(index) |-> DeltasOfChange(i, index[i])])

NoHunk == [present |-> FALSE]

\* git2::DiffHunk of hunk j of a delta.
HunkOf(d, j) ==
    [present |-> TRUE,
     old_start |-> 10 * j,
     old_lines |-> IF d.status = "Added" THEN 0 ELSE d.lines,
     new_start |-> 10 * j,
     new_lines |-> IF d.status = "Deleted" THEN 0 ELSE d.lines,
     header |-> <<"@@", d.status, d.file, j>>]

OriginOf(d, k) ==
    CASE d.status = "Added" -> "+"
      [] d.status = "Deleted" -> "-"
      [] OTHER -> <<"-", "+", " ">>[((k - 1) % 3) + 1]

\* One call of the print callback: (delta, hunk, line).
FileHeaderCall(d) ==
    [delta |-> d, hunk |-> NoHunk,
     line |-> [origin |-> "F", content |-> <<"diff --git", d.status, d.file>>]]

HunkHeaderCall(d, j) ==
    [delta |-> d, hunk |-> HunkOf(d, j),
     line |-> [origin |-> "H", content |-> HunkOf(d, j).header]]

LineCall(d, j, k) ==
    [delta |-> d, hunk |-> HunkOf(d, j),
     line |-> [origin |-> OriginOf(d, k), content |-> <<"line", d.status, d.file, j, k>>]]

HunkCalls(d, j) ==
    <<HunkHeaderCall(d, j)>> \o [k \in 1..d.lines |-> LineCall(d, j, k)]

DeltaCalls(d) ==
    <<FileHeaderCall(d)>> \o Concat([j \in 1..d.hunks |-> HunkCalls(d, j)])

\* diff.print(DiffFormat::Patch, cb): the calls cb receives, in order.
PatchStream(deltas) == Concat([n \in 1..Len(deltas) |-> DeltaCalls(deltas[n])])

\* The raw patch text of the diff: every line of the stream, the origin
\* marker written before the content of an added, deleted or context line.
LineText(line) ==
    IF line.origin \in {"+", "-", " "}
    THEN <<(<<line.origin>>), line.content>>
    ELSE <<line.content>>

RawPatchText(stream) == Concat([n \in 1..Len(stream) |-> LineText(stream[n].line)])

\* diff.stats(): the added and the deleted lines of the diff.
CountOrigin(stream, origin) ==
    Cardinality({n \in 1..Len(stream) : stream[n].line.origin = origin})

(***************************************************************************)
(* The object database.  Only trees matter here: the well-known empty     *)
(* tree is always readable, the tree of HEAD when HEAD resolves; the       *)
(* all-zero id is the null id and names no object.                         *)
(***************************************************************************)
ZeroOid == "0000000000000000000000000000000000000000"
EmptyTreeOid == "4b825dc642cb6eb9a060e54bf8d69288fbee4904"
HeadTreeOid == "tree-of-HEAD"

Trees(head) == {EmptyTreeOid} \cup (IF head = "commit" THEN {HeadTreeOid} ELSE {})

find_tree(head, oid) ==
    IF oid \in Trees(head) THEN Ok(oid) ELSE Err("object not found")

repo_head_lookup(head) ==
    IF head = "commit" THEN Ok(HeadTreeOid) ELSE Err("unborn branch")

(***************************************************************************)
(* GitRepo                                                                 *)
(***************************************************************************)
has_staged_changes(index) ==
    LET statuses == Statuses(index)
    IN Ok(\E n \in 1..Len(statuses) :
            LET status == statuses[n].status
            IN \/ is_index_new(status)
               \/ is_index_modified(status)
               \/ is_index_deleted(status)
               \/ is_index_renamed(status)
               \/ is_index_typechange(status))

get_diff(head, index) ==
    IF repo_head_lookup(head).ok
    THEN Ok(Deltas(index))
    ELSE LET empty_tree == find_tree(head, ZeroOid)
         IN IF empty_tree.ok THEN Ok(Deltas(index)) ELSE empty_tree

EmptyStagedChanges ==
    [added |-> <<>>, modified |-> <<>>, deleted |-> <<>>, renamed |-> <<>>,
     stats |-> [files_changed |-> 0, insertions |-> 0, deletions |-> 0]]

\* The body of the loop over the status entries.
ClassifyEntryCountingEveryRename(changes, entry) ==
    LET status == entry.status
        path == entry.path
    IN IF is_index_new(status)
       THEN [changes EXCEPT !.added = Append(@, path), !.stats.files_changed = @ + 1]
       ELSE IF is_index_modified(status)
       THEN [changes EXCEPT !.modified = Append(@, path), !.stats.files_changed = @ + 1]
       ELSE IF is_index_deleted(status)
       THEN [changes EXCEPT !.deleted = Append(@, path), !.stats.files_changed = @ + 1]
       ELSE IF is_index_renamed(status)
       THEN IF entry.head_to_index.present
            THEN [changes EXCEPT
                    !.renamed = Append(@, <<entry.head_to_index.old_path,
                                            entry.head_to_index.new_path>>),
                    !.stats.files_changed = @ + 1]
            ELSE [changes EXCEPT !.stats.files_changed = @ + 1]
       ELSE changes

ClassifyEntry(changes, entry) ==
    LET status == entry.status
        path == entry.path
    IN IF is_index_new(status)
       THEN [changes EXCEPT !.added = Append(@, path), !.stats.files_changed = @ + 1]
       ELSE IF is_index_modified(status)
       THEN [changes EXCEPT !.modified = Append(@, path), !.stats.files_changed = @ + 1]
       ELSE IF is_index_deleted(status)
       THEN [changes EXCEPT !.deleted = Append(@, path), !.stats.files_changed = @ + 1]
       ELSE IF is_index_renamed(status)
       THEN IF entry.head_to_index.present
            THEN [changes EXCEPT
                    !.renamed = Append(@, <<entry.head_to_index.old_path,
                                            entry.head_to_index.new_path>>),
                    !.stats.files_changed = @ + 1]
            ELSE changes
       ELSE changes

RECURSIVE ClassifyEntries(_, _)
ClassifyEntries(changes, statuses) ==
    IF statuses = <<>> THEN changes
    ELSE ClassifyEntries(ClassifyEntry(changes, Head(statuses)), Tail(statuses))

get_staged_changes(head, index) ==
    LET changes == ClassifyEntries(EmptyStagedChanges, Statuses(index))
        diff == get_diff(head, index)
    IN IF diff.ok
       THEN LET stream == PatchStream(diff.val)
            IN Ok([changes EXCEPT !.stats.insertions = CountOrigin(stream, "+"),
                                  !.stats.deletions = CountOrigin(stream, "-")])
       ELSE Ok(changes)

\* The print callback of get_structured_diff; acc is the pair of captured
\* variables [hunks, current_hunk].
NoCurrentHunk == [some |-> FALSE]

\* The callback without its Renamed branch: an open record stays open.
PrintCallbackKeepingOpen(acc, c) ==
    IF c.hunk.present
    THEN LET opened ==
                IF ~acc.current_hunk.some
                THEN [old_start |-> c.hunk.old_start,
                      old_lines |-> c.hunk.old_lines,
                      new_start |-> c.hunk.new_start,
                      new_lines |-> c.hunk.new_lines,
                      header |-> c.hunk.header,
                      lines |-> <<>>]
                ELSE acc.current_hunk.val
         IN [acc EXCEPT !.current_hunk =
                Some([opened EXCEPT !.lines = Append(@, [origin |-> c.line.origin,
                                                         content |-> c.line.content])])]
    ELSE acc

PrintCallback(acc, c) ==
    IF c.hunk.present
    THEN LET opened ==
                IF ~acc.current_hunk.some
                THEN [old_start |-> c.hunk.old_start,
                      old_lines |-> c.hunk.old_lines,
                      new_start |-> c.hunk.new_start,
                      new_lines |-> c.hunk.new_lines,
                      header |-> c.hunk.header,
                      lines |-> <<>>]
                ELSE acc.current_hunk.val
         IN [acc EXCEPT !.current_hunk =
                Some([opened EXCEPT !.lines = Append(@, [origin |-> c.line.origin,
                                                         content |-> c.line.content])])]
    ELSE IF c.delta.status = "Renamed"
    THEN IF acc.current_hunk.some
         THEN [hunks |-> Append(acc.hunks, acc.current_hunk.val),
               current_hunk |-> NoCurrentHunk]
         ELSE acc
    ELSE acc

RECURSIVE PrintFold(_, _)
PrintFold(acc, stream) ==
    IF stream = <<>> THEN acc
    ELSE PrintFold(PrintCallback(acc, Head(stream)), Tail(stream))

\* get_structured_diff without the flush after diff.print.
get_structured_diff_without_flush(head, index) ==
    LET diff == get_diff(head, index)
    IN IF ~diff.ok THEN diff
       ELSE Ok(PrintFold([hunks |-> <<>>, current_hunk |-> NoCurrentHunk],
                         PatchStream(diff.val)).hunks)

get_structured_diff(head, index) ==
    LET diff == get_diff(head, index)
    IN IF ~diff.ok THEN diff
       ELSE LET acc == PrintFold([hunks |-> <<>>, current_hunk |-> NoCurrentHunk],
                                 PatchStream(diff.val))
            IN IF acc.current_hunk.some
               THEN Ok(Append(acc.hunks, acc.current_hunk.val))
               ELSE Ok(acc.hunks)

\* main.rs, Commands::Commit: "Convert hunks to a single diff string".
HunkText(hunk) == <<hunk.header>> \o [k \in 1..Len(hunk.lines) |-> hunk.lines[k].content]

DiffText(hunks) == Concat([n \in 1..Len(hunks) |-> HunkText(hunks[n])])


\* main.rs, Commands::Commit, from get_staged_changes to the diff string.
commit_diff(head, index) ==
    LET changes == get_staged_changes(head, index)
        hunks == get_structured_diff(head, index)
    IN IF ~changes.ok THEN changes
       ELSE IF ~hunks.ok THEN hunks
       ELSE Ok([changes |-> changes.val, hunks |-> hunks.val, diff |-> DiffText(hunks.val)])

(***************************************************************************)
(* Specification of GitRepo: one call on a repository in any state.        *)
(***************************************************************************)
NoCommits == <<>>
NoBranches == <<>>

InitGit ==
    /\ repo_head \in {"commit", "unborn"}
    /\ repo_index \in IndexStates(IF repo_head = "unborn" THEN UnbornKinds ELSE Kinds)
    /\ commits = NoCommits
    /\ branches = NoBranches
    /\ now = 0
    /\ call = NoCall

HasStagedChanges ==
    /\ call.op = "none"
    /\ call' = [op |-> "has_staged_changes",
                result |-> has_staged_changes(repo_index)]
    /\ UNCHANGED <<repo_head, repo_index, commits, branches, now>>

GetStagedChanges ==
    /\ call.op = "none"
    /\ call' = [op |-> "get_staged_changes",
                result |-> get_staged_changes(repo_head, repo_index)]
    /\ UNCHANGED <<repo_head, repo_index, commits, branches, now>>

GetDiff ==
    /\ call.op = "none"
    /\ call' = [op |-> "get_diff", result |-> get_diff(repo_head, repo_index)]
    /\ UNCHANGED <<repo_head, repo_index, commits, branches, now>>

GetStructuredDiff ==
    /\ call.op = "none"
    /\ call' = [op |-> "get_structured_diff",
                result |-> get_structured_diff(repo_head, repo_index)]
    /\ UNCHANGED <<repo_head, repo_index, commits, branches, now>>

CommitDiff ==
    /\ call.op = "none"
    /\ call' = [op |-> "commit_diff", result |-> commit_diff(repo_head, repo_index)]
    /\ UNCHANGED <<repo_head, repo_index, commits, branches, now>>

NextGit ==
    \/ HasStagedChanges
    \/ GetStagedChanges
    \/ GetDiff
    \/ GetStructuredDiff
    \/ CommitDiff

SpecGit == InitGit /\ [][NextGit]_vars


(***************************************************************************)
(* Branch health: src/src/branch/mod.rs                                    *)
(*                                                                         *)
(* u32 values are kept as two 16-bit limbs, so that `x as u32` of a        *)
(* negative i64 is the value Rust produces (the low 32 bits).              *)
(***************************************************************************)
Limb == 256 * 256

AsU32(x) == [hi |-> (x \div Limb) % Limb, lo |-> x % Limb]

U32Ge(a, b) == a.hi > b.hi \/ (a.hi = b.hi /\ a.lo >= b.lo)
U32Gt(a, b) == a.hi > b.hi \/ (a.hi = b.hi /\ a.lo > b.lo)

\* Rust's / and % on i64 truncate toward zero (b > 0 here).
TruncDiv(a, b) == IF a >= 0 THEN a \div b ELSE -((-a) \div b)
TruncRem(a, b) == a - b * TruncDiv(a, b)

stale_days == 30
inactive_days == 7

\* TimeAgo::to_string; the text is the number and its unit.
to_string(time_ago) ==
    IF U32Gt(time_ago.days, AsU32(0)) THEN <<time_ago.days, " days">>
    ELSE IF U32Gt(time_ago.hours, AsU32(0)) THEN <<time_ago.hours, " hours">>
    ELSE <<time_ago.minutes, " minutes">>

\* calculate_time_ago taking the hours from the whole difference instead of
\* the seconds left after the days.
calculate_time_ago_whole_hours(git_time) ==
    LET diff_secs == now - git_time
        days == TruncDiv(diff_secs, 24 * 60 * 60)
        remaining_secs == TruncRem(diff_secs, 24 * 60 * 60)
        hours == TruncDiv(diff_secs, 60 * 60)
        minutes == TruncDiv(TruncRem(remaining_secs, 60 * 60), 60)
    IN Ok([days |-> AsU32(days), hours |-> AsU32(hours), minutes |-> AsU32(minutes)])

calculate_time_ago(git_time) ==
    LET diff_secs == now - git_time
        days == TruncDiv(diff_secs, 24 * 60 * 60)
        remaining_secs == TruncRem(diff_secs, 24 * 60 * 60)
        hours == TruncDiv(remaining_secs, 60 * 60)
        minutes == TruncDiv(TruncRem(remaining_secs, 60 * 60), 60)
    IN Ok([days |-> AsU32(days), hours |-> AsU32(hours), minutes |-> AsU32(minutes)])

(***************************************************************************)
(* The commit graph as git2 answers about it.                              *)
(***************************************************************************)
Dangling == [some |-> FALSE]    \* the target of a reference that names no commit

RECURSIVE Ancestors(_)
Ancestors(c) == {c} \cup UNION {Ancestors(p) : p \in commits[c].parents}

\* revwalk.push(c); revwalk.count()
revwalk_count(c) == Cardinality(Ancestors(c))

\* repo.graph_ahead_behind(local, upstream)
graph_ahead_behind(local, upstream) ==
    Ok(<<Cardinality(Ancestors(local) \ Ancestors(upstream)),
         Cardinality(Ancestors(upstream) \ Ancestors(local))>>)

\* repo.merge_base(one, two): a common ancestor that no other common
\* ancestor descends from; an error when the histories are unrelated.
merge_base(one, two) ==
    LET common == Ancestors(one) \cap Ancestors(two)
        best == {c \in common : \A d \in common \ {c} : c \notin Ancestors(d)}
    IN IF common = {} THEN Err("no merge base found")
       ELSE Ok(CHOOSE c \in best : \A d \in best : d <= c)

\* The newest commit of a set (the later id among equals).
Newest(queue) ==
    CHOOSE c \in queue :
        \A d \in queue :
            \/ commits[d].time < commits[c].time
            \/ (commits[d].time = commits[c].time /\ d <= c)

\* A walk from the commits of queue that leaves the hidden ones out: the
\* newest queued commit comes next, then its parents are queued.
RECURSIVE RevWalk(_, _, _)
RevWalk(queue, seen, hidden) ==
    IF queue = {} THEN <<>>
    ELSE LET c == Newest(queue)
             more == commits[c].parents \ (seen \cup hidden)
         IN <<c>> \o RevWalk((queue \ {c}) \cup more, seen \cup {c} \cup more, hidden)

\* revwalk.push(tip); revwalk.hide(base); the commits the iterator yields.
revwalk_push_hide(tip, base) ==
    IF tip \in Ancestors(base) THEN <<>>
    ELSE RevWalk({tip}, {tip}, Ancestors(base))

\* repo.find_branch(name, branch_type)
find_branch(name, branch_type) ==
    LET found == {n \in 1..Len(branches) :
                    branches[n].name = name /\ branches[n].type = branch_type}
    IN IF found = {} THEN Err("branch not found")
       ELSE Ok(branches[CHOOSE n \in found : TRUE])

\* Result::or_else
or_else(first, second) == IF first.ok THEN first ELSE second

\* branch.get().peel_to_commit()
peel_to_commit(branch) ==
    IF ~branch.target.some THEN Err("reference does not point to a commit")
    ELSE Ok(branch.target.val)

\* repo.branches(Some(branch_type)): the branches of that type, in order.
branches_of(branch_type) ==
    LET IsType(b) == b.type = branch_type
    IN SelectSeq(branches, IsType)

(***************************************************************************)
(* BranchAnalyzer                                                          *)
(***************************************************************************)
\* get_distance_from_main asking for the distance of main from the branch.
get_distance_from_main_reversed(branch) ==
    LET main_branch == or_else(find_branch("main", "Local"), find_branch("master", "Local"))
    IN IF ~main_branch.ok THEN Err("Failed to find main or master branch")
       ELSE LET branch_commit == peel_to_commit(branch)
                main_commit == peel_to_commit(main_branch.val)
            IN IF ~branch_commit.ok THEN Err("Failed to get branch commit")
               ELSE IF ~main_commit.ok THEN Err("Failed to get main branch commit")
               ELSE graph_ahead_behind(main_commit.val, branch_commit.val)

get_distance_from_main(branch) ==
    LET main_branch == or_else(find_branch("main", "Local"), find_branch("master", "Local"))
    IN IF ~main_branch.ok THEN Err("Failed to find main or master branch")
       ELSE LET branch_commit == peel_to_commit(branch)
                main_commit == peel_to_commit(main_branch.val)
            IN IF ~branch_commit.ok THEN Err("Failed to get branch commit")
               ELSE IF ~main_commit.ok THEN Err("Failed to get main branch commit")
               ELSE graph_ahead_behind(branch_commit.val, main_commit.val)

\* The status of a branch with the thresholds taken as exclusive.
branch_status_exclusive(last_activity) ==
    IF U32Gt(last_activity.days, AsU32(stale_days)) THEN "Stale"
    ELSE IF U32Gt(last_activity.days, AsU32(inactive_days)) THEN "NeedsAttention"
    ELSE "Healthy"

branch_status(last_activity) ==
    IF U32Ge(last_activity.days, AsU32(stale_days)) THEN "Stale"
    ELSE IF U32Ge(last_activity.days, AsU32(inactive_days)) THEN "NeedsAttention"
    ELSE "Healthy"

\* age_time without the fallback to the tip's own time: an empty walk leaves
\* the zero time.
age_time_without_fallback(commit, base) ==
    LET walk == revwalk_push_hide(commit, base)
    IN IF walk # <<>> THEN commits[Head(walk)].time ELSE 0

\* The time the age is computed from: the first commit of the walk from the
\* tip that hides the merge base, else the tip's own time.
age_time(commit, base) ==
    LET walk == revwalk_push_hide(commit, base)
    IN IF walk # <<>> THEN commits[Head(walk)].time ELSE commits[commit].time

analyze_branch(branch) ==
    LET commit == peel_to_commit(branch)
    IN IF ~commit.ok THEN Err("Failed to get branch commit")
       ELSE
       LET last_activity == calculate_time_ago(commits[commit.val].time).val
           commit_count == revwalk_count(commit.val)
           distance == get_distance_from_main(branch)
       IN IF ~distance.ok THEN distance
          ELSE
          LET main_branch == or_else(find_branch("master", "Local"),
                                     find_branch("main", "Local"))
          IN IF ~main_branch.ok THEN Err("Failed to find main branch")
             ELSE
             LET main_commit == peel_to_commit(main_branch.val)
             IN IF ~main_commit.ok THEN main_commit
                ELSE
                LET base == merge_base(commit.val, main_commit.val)
                IN IF ~base.ok THEN base
                   ELSE
                   LET age == calculate_time_ago(age_time(commit.val, base.val)).val
                   IN Ok([name |-> branch.name,
                          status |-> branch_status(last_activity),
                          age_display |-> to_string(age),
                          last_activity_display |-> to_string(last_activity),
                          last_activity |-> last_activity,
                          author |-> commits[commit.val].author,
                          commit_count |-> commit_count,
                          ahead_count |-> distance.val[1],
                          behind_count |-> distance.val[2]])

NoneArg == [some |-> FALSE]

\* The loop body with the days filter dropping a branch at the limit too.
AnalyzeIntoBelowLimit(results, branch, days, author) ==
    LET health == analyze_branch(branch)
    IN IF ~health.ok THEN results
       ELSE IF days.some /\ U32Ge(health.val.last_activity.days, AsU32(days.val))
       THEN results
       ELSE IF author.some /\ health.val.author # author.val
       THEN results
       ELSE Append(results, health.val)

\* The loop body leaving the stale branches out of the report.
AnalyzeIntoSkippingStale(results, branch, days, author) ==
    LET health == analyze_branch(branch)
    IN IF ~health.ok THEN results
       ELSE IF health.val.status = "Stale"
       THEN results
       ELSE IF days.some /\ U32Gt(health.val.last_activity.days, AsU32(days.val))
       THEN results
       ELSE IF author.some /\ health.val.author # author.val
       THEN results
       ELSE Append(results, health.val)

\* The body of the loop over the branches of one type.
AnalyzeInto(results, branch, days, author) ==
    LET health == analyze_branch(branch)
    IN IF ~health.ok THEN results
       ELSE IF days.some /\ U32Gt(health.val.last_activity.days, AsU32(days.val))
       THEN results
       ELSE IF author.some /\ health.val.author # author.val
       THEN results
       ELSE Append(results, health.val)

RECURSIVE AnalyzeAll(_, _, _, _)
AnalyzeAll(results, brs, days, author) ==
    IF brs = <<>> THEN results
    ELSE AnalyzeAll(AnalyzeInto(results, Head(brs), days, author), Tail(brs), days, author)

\* The branch types of a filter with the remote-tracking branches first.
branch_types_remote_first(filter) ==
    CASE filter = "All" -> <<"Remote", "Local">>
      [] filter = "Local" -> <<"Local">>
      [] filter = "Remote" -> <<"Remote">>

branch_types(filter) ==
    CASE filter = "All" -> <<"Local", "Remote">>
      [] filter = "Local" -> <<"Local">>
      [] filter = "Remote" -> <<"Remote">>

\* analyze_branches ending at the first branch whose analysis fails, as it
\* would with `?` on analyze_branch.
RECURSIVE AnalyzeAllOrFail(_, _, _, _)
AnalyzeAllOrFail(results, brs, days, author) ==
    IF brs = <<>> THEN Ok(results)
    ELSE LET health == analyze_branch(Head(brs))
         IN IF ~health.ok THEN health
            ELSE AnalyzeAllOrFail(AnalyzeInto(results, Head(brs), days, author),
                                  Tail(brs), days, author)

analyze_branches_propagating(filter, days, author) ==
    AnalyzeAllOrFail(<<>>,
                     Concat([n \in 1..Len(branch_types(filter)) |->
                                branches_of(branch_types(filter)[n])]),
                     days, author)

\* analyze_branches leaving the loop at the first branch whose analysis
\* fails, as it would with `break` in place of the skip.
RECURSIVE AnalyzeUntilFailure(_, _, _, _)
AnalyzeUntilFailure(results, brs, days, author) ==
    IF brs = <<>> THEN results
    ELSE IF ~analyze_branch(Head(brs)).ok THEN results
    ELSE AnalyzeUntilFailure(AnalyzeInto(results, Head(brs), days, author),
                             Tail(brs), days, author)

analyze_branches_breaking(filter, days, author) ==
    Ok(AnalyzeUntilFailure(<<>>,
                           Concat([n \in 1..Len(branch_types(filter)) |->
                                      branches_of(branch_types(filter)[n])]),
                           days, author))

analyze_branches(filter, days, author) ==
    Ok(AnalyzeAll(<<>>,
                  Concat([n \in 1..Len(branch_types(filter)) |->
                             branches_of(branch_types(filter)[n])]),
                  days, author))

(***************************************************************************)
(* Specification of BranchAnalyzer: one call on a repository in any state. *)
(*                                                                         *)
(* The repository holds the commits 1..MaxCommits, each with at most one   *)
(* parent among the earlier ones (so unrelated histories occur), commit    *)
(* times that rise or fall along the ids (clock skew), the local branch    *)
(* feature, optionally main and master, and optionally one remote-tracking *)
(* branch, which may be a dangling origin/HEAD.  master, where it exists,  *)
(* is at one of the two oldest commits.                                    *)
(***************************************************************************)
Commits == 1..MaxCommits

Day == 24 * 60 * 60
CommitSpacing == 23 * Day

TimeProfiles == {"rising", "falling"}

CommitTime(profile, c) ==
    IF profile = "rising" THEN (c - 1) * CommitSpacing
    ELSE (MaxCommits - c) * CommitSpacing

\* Three authors, two of them differing in case only.
AuthorOf(c) == <<"alice", "bob", "Alice">>[((c - 1) % 3) + 1]

NowChoices == {30 * Day - 1, 30 * Day, 53 * Day + 3725}

ParentChoices == {p \in [Commits -> 0..MaxCommits] : \A c \in Commits : p[c] < c}

Graph(p, profile) ==
    [c \in Commits |->
        [parents |-> IF p[c] = 0 THEN {} ELSE {p[c]},
         time |-> CommitTime(profile, c),
         author |-> AuthorOf(c)]]

\* A local branch at commit target; none when target is 0.
LocalBranch(name, target) ==
    IF target = 0 THEN <<>>
    ELSE <<[name |-> name, type |-> "Local", target |-> Some(target)]>>

RemoteChoices ==
    {<<>>,
     <<[name |-> "origin/HEAD", type |-> "Remote", target |-> Dangling]>>,
     <<[name |-> "origin/feature", type |-> "Remote", target |-> Some(1)]>>}

DaysArgs == {NoneArg, Some(inactive_days)}
AuthorArgs == {NoneArg, Some("alice")}

InitBranch ==
    /\ repo_head = "commit"
    /\ repo_index = <<>>
    /\ \E p \in ParentChoices, profile \in TimeProfiles :
            commits = Graph(p, profile)
    /\ \E feature \in Commits, main \in 0..MaxCommits,
          master \in 0..2, remote \in RemoteChoices :
            branches = LocalBranch("feature", feature) \o LocalBranch("main", main)
                       \o LocalBranch("master", master) \o remote
    /\ now \in NowChoices
    /\ call = NoCall

AnalyzeBranch ==
    /\ call.op = "none"
    /\ \E n \in 1..Len(branches) :
            call' = [op |-> "analyze_branch", branch |-> branches[n],
                     result |-> analyze_branch(branches[n])]
    /\ UNCHANGED <<repo_head, repo_index, commits, branches, now>>

AnalyzeBranches ==
    /\ call.op = "none"
    /\ \E filter \in {"All", "Local", "Remote"}, days \in DaysArgs, author \in AuthorArgs :
            call' = [op |-> "analyze_branches",
                     filter |-> filter, days |-> days, author |-> author,
                     result |-> analyze_branches(filter, days, author)]
    /\ UNCHANGED <<repo_head, repo_index, commits, branches, now>>

NextBranch ==
    \/ AnalyzeBranch
    \/ AnalyzeBranches

SpecBranch == InitBranch /\ [][NextBranch]_vars

(***************************************************************************)
(* The report: format_output and the three renderings.                    *)
(*                                                                         *)
(* A rendering is the sequence of its lines, a line the sequence of the    *)
(* pieces format! puts together; the box-drawing and emoji characters are  *)
(* spelled in ASCII.  The JSON rendering is the array of objects serde     *)
(* derives: one <<key, value>> pair per serialised field, in declaration   *)
(* order, last_activity skipped and the two display strings renamed.       *)
(***************************************************************************)
status_emoji(status) ==
    CASE status = "Healthy" -> "green circle"
      [] status = "NeedsAttention" -> "yellow circle"
      [] status = "Stale" -> "red circle"

\* format!("{:?}", status): the name of the variant.
DebugStatus(status) ==
    CASE status = "Healthy" -> "Healthy"
      [] status = "NeedsAttention" -> "NeedsAttention"
      [] status = "Stale" -> "Stale"

\* Local::now().format("%Y-%m-%d %H:%M:%S")
LocalNow == <<"local time", now>>

TextEntry(health) ==
    <<(<<health.name>>),
      (<<"|-- Status: ", status_emoji(health.status), " ", DebugStatus(health.status)>>),
      (<<"|-- Age: ", health.age_display>>),
      (<<"|-- Last Activity: ", health.last_activity_display>>),
      (<<"|-- Author: ", health.author>>),
      (<<"|-- Commits: ", health.commit_count>>),
      (<<"+-- Main Distance: ", health.ahead_count, " ahead, ",
         health.behind_count, " behind">>),
      (<<>>)>>

format_text(results) ==
    Ok(<<(<<"Branch Health Report">>), (<<"Last updated: ", LocalNow>>), (<<>>)>>
       \o Concat([n \in 1..Len(results) |-> TextEntry(results[n])]))

MarkdownEntry(health) ==
    <<(<<"## ", health.name>>),
      (<<>>),
      (<<"| Metric | Value |">>),
      (<<"|--------|-------|">>),
      (<<"| Status | ", status_emoji(health.status), " ", DebugStatus(health.status), " |">>),
      (<<"| Age | ", health.age_display, " |">>),
      (<<"| Last Activity | ", health.last_activity_display, " |">>),
      (<<"| Author | ", health.author, " |">>),
      (<<"| Commits | ", health.commit_count, " |">>),
      (<<"| Main Distance | ", health.ahead_count, " ahead, ",
         health.behind_count, " behind |">>),
      (<<>>)>>

\* format_markdown reporting the ahead count in the place of the behind
\* count.
MarkdownEntryAheadTwice(health) ==
    [MarkdownEntry(health) EXCEPT ![10] =
        <<"| Main Distance | ", health.ahead_count, " ahead, ",
          health.ahead_count, " behind |">>]

format_markdown_ahead_twice(results) ==
    Ok(<<(<<"# Branch Health Report">>), (<<>>), (<<"*Last updated: ", LocalNow, "*">>), (<<>>)>>
       \o Concat([n \in 1..Len(results) |-> MarkdownEntryAheadTwice(results[n])]))

format_markdown(results) ==
    Ok(<<(<<"# Branch Health Report">>), (<<>>), (<<"*Last updated: ", LocalNow, "*">>), (<<>>)>>
       \o Concat([n \in 1..Len(results) |-> MarkdownEntry(results[n])]))

\* #[derive(Serialize)] of BranchStatus: a unit variant is its name.
SerializeStatus(status) ==
    CASE status = "Healthy" -> "Healthy"
      [] status = "NeedsAttention" -> "NeedsAttention"
      [] status = "Stale" -> "Stale"

\* #[derive(Serialize)] of BranchHealth.
SerializeBranchHealth(health) ==
    <<(<<"name", health.name>>),
      (<<"status", SerializeStatus(health.status)>>),
      (<<"last_activity", health.last_activity_display>>),
      (<<"age", health.age_display>>),
      (<<"author", health.author>>),
      (<<"commit_count", health.commit_count>>),
      (<<"ahead_count", health.ahead_count>>),
      (<<"behind_count", health.behind_count>>)>>

\* serde_json::to_string_pretty(results)
to_string_pretty(results) ==
    Ok([n \in 1..Len(results) |-> SerializeBranchHealth(results[n])])

Formats == {"Text", "Json", "Markdown"}

format_output(results, format) ==
    CASE format = "Json" -> to_string_pretty(results)
      [] format = "Markdown" -> format_markdown(results)
      [] format = "Text" -> format_text(results)

(***************************************************************************)
(* Specification of the health report: a scan of a repository that has a   *)
(* main branch, then its rendering, or the same scan again after some time *)
(* has passed (or none).  Nothing but the clock changes between the two    *)
(* scans.                                                                  *)
(***************************************************************************)
ElapsedChoices == {60, Day}

ReportRemoteChoices ==
    {<<>>, <<[name |-> "origin/feature", type |-> "Remote", target |-> Some(1)]>>}

InitReport ==
    /\ repo_head = "commit"
    /\ repo_index = <<>>
    /\ \E p \in ParentChoices : commits = Graph(p, "rising")
    /\ \E feature \in Commits, main \in Commits, remote \in ReportRemoteChoices :
            branches = LocalBranch("feature", feature) \o LocalBranch("main", main)
                       \o remote
    /\ now \in NowChoices
    /\ call = NoCall

Scan ==
    /\ call.op = "none"
    /\ \E filter \in {"All", "Local", "Remote"}, days \in DaysArgs, author \in AuthorArgs :
            call' = [op |-> "scan", at |-> now,
                     filter |-> filter, days |-> days, author |-> author,
                     result |-> analyze_branches(filter, days, author)]
    /\ UNCHANGED <<repo_head, repo_index, commits, branches, now>>

\* Time passes after the scan.
Tick ==
    /\ call.op = "scan"
    /\ now = call.at
    /\ \E elapsed \in ElapsedChoices : now' = now + elapsed
    /\ UNCHANGED <<repo_head, repo_index, commits, branches, call>>

Rescan ==
    /\ call.op = "scan"
    /\ call' = [op |-> "rescan", at |-> call.at,
                filter |-> call.filter, days |-> call.days, author |-> call.author,
                first |-> call.result,
                result |-> analyze_branches(call.filter, call.days, call.author)]
    /\ UNCHANGED <<repo_head, repo_index, commits, branches, now>>

FormatOutput ==
    /\ call.op = "scan"
    /\ call.result.ok
    /\ \E format \in Formats :
            call' = [op |-> "format_output", format |-> format,
                     scanned |-> call.result.val,
                     results |-> call.result.val,
                     result |-> format_output(call.result.val, format)]
    /\ UNCHANGED <<repo_head, repo_index, commits, branches, now>>

NextReport ==
    \/ Scan
    \/ Tick
    \/ Rescan
    \/ FormatOutput

SpecReport == InitReport /\ [][NextReport]_vars

(***************************************************************************)
(* Configuration: src/src/config/mod.rs                                    *)
(***************************************************************************)
ApiKeys == {"", "sk-ant-one", "sk-ant-two"}

\* The configuration Config::load builds when there is no config file.
ConfigWithoutFile ==
    [ai |-> [provider |-> "anthropic", api_key |-> "",
             model |-> "claude-3-5-haiku-20241022"],
     git |-> [max_diff_size |-> 0, protected_branches |-> <<>>],
     commit |-> [template |-> "", max_subject_length |-> 0],
     server |-> [use_server |-> TRUE]]

\* A configuration read from a file that sets the key and leaves the rest
\* to the serde defaults.
ConfigFromFile(api_key, use_server) ==
    [ai |-> [provider |-> "anthropic", api_key |-> api_key, model |-> "claude-haiku"],
     git |-> [max_diff_size |-> 1000, protected_branches |-> <<"main", "master">>],
     commit |-> [template |-> "conventional", max_subject_length |-> 72],
     server |-> [use_server |-> use_server]]

Configs ==
    {ConfigWithoutFile}
    \cup {ConfigFromFile(key, use_server) : key \in ApiKeys, use_server \in BOOLEAN}

get_api_key(config) ==
    IF config.ai.api_key = "" THEN NoneArg ELSE Some(config.ai.api_key)

\* Config::display with the key itself in the API Key line.
display_showing_key(config) ==
    <<(<<"AI Configuration:">>),
      (<<"  Provider: ", config.ai.provider>>),
      (<<"  Model: ", config.ai.model>>),
      (<<"  API Key: ", IF config.ai.api_key = "" THEN "<not set>" ELSE config.ai.api_key>>),
      (<<"Git Configuration:">>),
      (<<"  Max Diff Size: ", config.git.max_diff_size, " lines">>),
      (<<"  Protected Branches:", config.git.protected_branches>>),
      (<<"Commit Configuration:">>),
      (<<"  Template: ", config.commit.template>>),
      (<<"  Max Subject Length: ", config.commit.max_subject_length, " characters">>),
      (<<"Server Configuration:">>),
      (<<"  Use Server: ", config.server.use_server>>)>>

display(config) ==
    <<(<<"AI Configuration:">>),
      (<<"  Provider: ", config.ai.provider>>),
      (<<"  Model: ", config.ai.model>>),
      (<<"  API Key: ", IF config.ai.api_key = "" THEN "<not set>" ELSE "********">>),
      (<<"Git Configuration:">>),
      (<<"  Max Diff Size: ", config.git.max_diff_size, " lines">>),
      (<<"  Protected Branches:", config.git.protected_branches>>),
      (<<"Commit Configuration:">>),
      (<<"  Template: ", config.commit.template>>),
      (<<"  Max Subject Length: ", config.commit.max_subject_length, " characters">>),
      (<<"Server Configuration:">>),
      (<<"  Use Server: ", config.server.use_server>>)>>

(***************************************************************************)
(* The text-generation service as the HTTP client sees it.                 *)
(*                                                                         *)
(* A response is [sent, status, body]: sent is FALSE when the request      *)
(* failed in transport; body is [parses, content], content the list of     *)
(* content items of a body that deserialises.  A text is a sequence of     *)
(* pieces [text, has]: has is the set of type words the piece contains.    *)
(***************************************************************************)
Piece(text, has) == [text |-> text, has |-> has]

Texts ==
    {<<Piece("feat(parser): add ranges", {"feat"})>>,
     <<Piece("Based on the changes, here is a specific message:", {"ci"}),
       Piece("fix: handle empty diff", {"fix"})>>}

Unparsable == [parses |-> FALSE, content |-> <<>>]

Bodies ==
    {Unparsable, [parses |-> TRUE, content |-> <<>>]}
    \cup {[parses |-> TRUE,
           content |-> <<[content_type |-> "tool_use", text |-> text]>>] : text \in Texts}
    \cup {[parses |-> TRUE,
           content |-> <<[content_type |-> "text", text |-> text]>>] : text \in Texts}

TransportFailure == [sent |-> FALSE, status |-> 0, body |-> Unparsable]

Responses ==
    {TransportFailure} \cup [sent : {TRUE}, status : {200, 529}, body : Bodies]

\* StatusCode::is_success
is_success(status) == status \in 200..299

\* The type words clean_commit_message looks for, in the order it does.
TypeWords == <<"feat", "fix", "docs", "style", "refactor", "perf", "test", "chore",
               "ci", "build">>

\* message.find(word): the first piece that contains the word, 0 for None.
find(message, word) ==
    IF \E n \in 1..Len(message) : word \in message[n].has
    THEN CHOOSE n \in 1..Len(message) :
            /\ word \in message[n].has
            /\ \A m \in 1..(n - 1) : word \notin message[m].has
    ELSE 0

clean_commit_message(message) ==
    LET found == {w \in 1..Len(TypeWords) : find(message, TypeWords[w]) # 0}
    IN IF found = {} THEN message
       ELSE LET first == CHOOSE w \in found : \A v \in found : w <= v
            IN SubSeq(message, find(message, TypeWords[first]), Len(message))

\* content.into_iter().find(|c| c.content_type == "text").map(|c| c.text)
find_text(content) ==
    LET texts == SelectSeq(content, LAMBDA c : c.content_type = "text")
    IN IF texts = <<>> THEN NoneArg ELSE Some(texts[1].text)

\* One turn of the loop of CommitMessageGenerator::generate_suggestions,
\* from the response to the request it sent: the suggestion to push, or the
\* error that ends the operation.
SuggestionOf(response) ==
    IF ~response.sent THEN Err("Failed to send request to Anthropic")
    ELSE IF ~response.body.parses THEN Err("Failed to parse Anthropic response")
    ELSE IF ~find_text(response.body.content).some THEN Err("No text content in response")
    ELSE Ok(clean_commit_message(find_text(response.body.content).val))

\* The same turn in the server's generate_commit_suggestions, which looks at
\* the status first.
ServerSuggestionOf(response) ==
    IF ~response.sent THEN Err("HttpClientError")
    ELSE IF ~is_success(response.status) THEN Err("AnthropicError")
    ELSE IF ~response.body.parses THEN Err("SerializationError")
    ELSE IF ~find_text(response.body.content).some THEN Err("ParseError")
    ELSE Ok(clean_commit_message(find_text(response.body.content).val))

\* The outcome of an operation: a value, an error or a panic.
Panic(why) == [ok |-> FALSE, err |-> why, panic |-> TRUE]

\* CommandSuggester::suggest, given the configuration and the response to
\* the one request it sends (which is sent only when there is a key).
suggest(config, response) ==
    IF ~get_api_key(config).some THEN Err("API key not found")
    ELSE IF ~response.sent THEN Err("error sending request")
    ELSE IF ~response.body.parses THEN Err("error decoding response body")
    ELSE IF response.body.content = <<>> THEN Panic("index out of bounds")
    ELSE Ok(response.body.content[1].text)

\* The gyst server as ServerClient sees it: the body is a CommitResponse
\* when it deserialises.
ServerBodies ==
    {[parses |-> FALSE, message |-> <<>>]}
    \cup {[parses |-> TRUE, message |-> text] : text \in Texts}

ServerResponses ==
    {[sent |-> FALSE, status |-> 0, body |-> [parses |-> FALSE, message |-> <<>>]]}
    \cup [sent : {TRUE}, status : {200, 502}, body : ServerBodies]

\* ServerClient::generate_message, given the response to its request.
generate_message_by_server(response) ==
    IF ~response.sent THEN Err("Failed to send request to server")
    ELSE IF ~is_success(response.status) THEN Err("Server error")
    ELSE IF ~response.body.parses THEN Err("Failed to parse server response")
    ELSE Ok(response.body.message)

(***************************************************************************)
(* The operations of GitRepo that change the repository.                   *)
(*                                                                         *)
(* Here commits is the sequence of the commits made so far, each           *)
(* [parents, tree, message], HEAD being at the last one; a tree is the     *)
(* sequence of the staged change sets that were committed into it.         *)
(***************************************************************************)
Staged(index) ==
    SelectSeq(index, LAMBDA c : StatusBits(c.kind) \cap
                 {"INDEX_NEW", "INDEX_MODIFIED", "INDEX_DELETED",
                  "INDEX_RENAMED", "INDEX_TYPECHANGE"} # {})

Unstaged(index) == SelectSeq(index, LAMBDA c : c.kind = "wt_modified")

\* index.add_all(["*"]) and index.write(): every change of the working tree
\* becomes a change of the index.
stage_all(head, index) ==
    [n \in 1..Len(index) |->
        IF index[n].kind = "wt_modified"
        THEN [index[n] EXCEPT !.kind = IF head = "unborn" THEN "new" ELSE "modified"]
        ELSE index[n]]

\* The commit HEAD resolves to.
head_commit(head, cs) == IF head = "commit" THEN Some(Len(cs)) ELSE NoneArg

head_tree(head, cs) == IF head = "commit" THEN cs[Len(cs)].tree ELSE <<>>

\* index.write_tree(): the tree of HEAD with the staged changes applied.
write_tree(head, index, cs) ==
    IF Staged(index) = <<>> THEN head_tree(head, cs)
    ELSE Append(head_tree(head, cs), Staged(index))

\* create_commit giving every commit an empty parent list.
create_commit_without_parents(head, index, cs, message, signature) ==
    IF ~signature
    THEN [result |-> Err("Failed to get signature"),
          head |-> head, index |-> index, commits |-> cs]
    ELSE [result |-> Ok(Len(cs) + 1),
          head |-> "commit",
          index |-> Unstaged(index),
          commits |-> Append(cs, [parents |-> <<>>,
                                  tree |-> write_tree(head, index, cs),
                                  message |-> message])]

\* create_commit: the result and the repository it leaves; signature tells
\* whether repo.signature() finds a user name and email.
create_commit(head, index, cs, message, signature) ==
    IF ~signature
    THEN [result |-> Err("Failed to get signature"),
          head |-> head, index |-> index, commits |-> cs]
    ELSE LET tree == write_tree(head, index, cs)
             parent == head_commit(head, cs)
             parents == IF parent.some THEN <<parent.val>> ELSE <<>>
         IN [result |-> Ok(Len(cs) + 1),
             head |-> "commit",
             index |-> Unstaged(index),
             commits |-> Append(cs, [parents |-> parents, tree |-> tree,
                                     message |-> message])]

(***************************************************************************)
(* A line read from the terminal: the characters typed, LF last.           *)
(***************************************************************************)
Whitespace == {" ", "LF"}

RECURSIVE trim_start(_)
trim_start(line) ==
    IF line # <<>> /\ Head(line) \in Whitespace THEN trim_start(Tail(line)) ELSE line

RECURSIVE trim_end(_)
trim_end(line) ==
    IF line # <<>> /\ line[Len(line)] \in Whitespace
    THEN trim_end(SubSeq(line, 1, Len(line) - 1))
    ELSE line

trim(line) == trim_end(trim_start(line))

LowerOf(char) ==
    CASE char = "Y" -> "y"
      [] char = "N" -> "n"
      [] char = "O" -> "o"
      [] char = "E" -> "e"
      [] OTHER -> char

to_lowercase(line) == [n \in 1..Len(line) |-> LowerOf(line[n])]

(***************************************************************************)
(* Specification of the commands: src/src/main.rs with the generator of    *)
(* src/src/ai/mod.rs, the server's generate_commit_suggestions, and single *)
(* calls of CommandSuggester::suggest, ServerClient::generate_message,     *)
(* Config::display and GitRepo::create_commit.                             *)
(*                                                                         *)
(* call is the run in progress: pc is where it stands, sent the number of  *)
(* HTTP requests sent, responses what came back, stage_answer and answer   *)
(* the lines typed at the two prompts, editor how the editor exited,       *)
(* commit_calls one entry per call of create_commit with the repository as *)
(* it was before.                                                          *)
(***************************************************************************)
CommandChanges(head) ==
    IF head = "unborn"
    THEN {[kind |-> "new", hunks |-> 1, lines |-> 1],
          [kind |-> "wt_modified", hunks |-> 0, lines |-> 1]}
    ELSE {[kind |-> "modified", hunks |-> 1, lines |-> 1],
          [kind |-> "wt_modified", hunks |-> 0, lines |-> 1]}

CommandIndexStates(head) ==
    UNION {[1..n -> CommandChanges(head)] : n \in 0..MaxChanges}

FirstCommit == [parents |-> <<>>, tree |-> <<>>, message |-> <<>>]

\* Config::load: the configuration, or the error of an unreadable file.
Loads ==
    {Err("Failed to parse config file"), Ok(ConfigWithoutFile)}
    \cup {Ok(ConfigFromFile(key, TRUE)) : key \in ApiKeys}

NewRun(op, quick) ==
    [op |-> op, quick |-> quick, pc |-> "start", exit |-> "running",
     asked_to_stage |-> FALSE, staged_all |-> FALSE,
     config |-> NoneArg, asked_count |-> NoneArg, count |-> 0,
     sent |-> 0, responses |-> <<>>,
     suggestions |-> <<>>, generated |-> NoneArg,
     stage_answer |-> <<>>, answer |-> <<>>, editor |-> "unused",
     message |-> <<>>, answered |-> FALSE, commit_calls |-> <<>>,
     outcome |-> NoneArg, output |-> <<>>]

Running == call.op # "none" /\ call.exit = "running"

End(run, exit) == [run EXCEPT !.pc = "done", !.exit = exit]

\* The message-generation loop is entered: generate_suggestions(count)
\* with the key of the configuration.
Generate(run, count) ==
    IF ~get_api_key(run.config.val).some
    THEN End([run EXCEPT !.generated = Some(Err("API key not set"))], "err")
    ELSE IF count = 0
    THEN End([run EXCEPT !.generated = Some(Ok(<<>>))], "ok")
    ELSE [run EXCEPT !.count = count, !.pc = "generate"]

\* main.rs from get_staged_changes to the call of the generator.
Prepare(run, head, index, load) ==
    IF ~get_staged_changes(head, index).ok THEN End(run, "err")
    ELSE IF ~get_structured_diff(head, index).ok THEN End(run, "err")
    ELSE IF ~load.ok THEN End(run, "err")
    ELSE Generate([run EXCEPT !.config = Some(load.val)],
                  IF run.op = "commit" THEN 1 ELSE 3)

\* The generator returned Ok and the commit command goes straight on to the
\* commit, with or without --quick.
GeneratedSkippingConfirmation(run) ==
    LET done == [run EXCEPT !.generated = Some(Ok(run.suggestions))]
    IN CASE run.op = "commit" ->
               IF run.suggestions = <<>> THEN End(done, "panic")
               ELSE [done EXCEPT !.message = run.suggestions[1], !.pc = "create"]
         [] run.op = "suggest" -> [done EXCEPT !.pc = "select"]
         [] OTHER -> End(done, "ok")

\* The generator returned Ok: the commit command takes the first message
\* (generate_message panics in unwrap when there is none) and goes on to
\* the commit or to the confirmation, the suggest command to the selection;
\* the server answers.
Generated(run) ==
    LET done == [run EXCEPT !.generated = Some(Ok(run.suggestions))]
    IN CASE run.op = "commit" ->
               IF run.suggestions = <<>> THEN End(done, "panic")
               ELSE [done EXCEPT !.message = run.suggestions[1],
                                 !.pc = IF run.quick THEN "create" ELSE "confirm"]
         [] run.op = "suggest" -> [done EXCEPT !.pc = "select"]
         [] OTHER -> End(done, "ok")

\* The loop making one turn fewer than count.
MoreTurnsStoppingEarly(run) == run.sent < run.count - 1

\* for _ in 0..count
MoreTurns(run) == run.sent < run.count

\* The loop going on to the next request after a response it cannot use.
AfterResponseSkippingFailure(run, response) ==
    LET suggestion == IF run.op = "server_suggestions"
                      THEN ServerSuggestionOf(response) ELSE SuggestionOf(response)
        received == [run EXCEPT !.responses = Append(@, response)]
        pushed == IF suggestion.ok
                  THEN [received EXCEPT !.suggestions = Append(@, suggestion.val)]
                  ELSE received
    IN IF MoreTurns(pushed) THEN [pushed EXCEPT !.pc = "generate"]
       ELSE IF Len(pushed.suggestions) = 0
       THEN End([pushed EXCEPT !.generated = Some(suggestion)], "err")
       ELSE Generated(pushed)

\* The rest of one turn of the loop, from the response on.
AfterResponse(run, response) ==
    LET suggestion == IF run.op = "server_suggestions"
                      THEN ServerSuggestionOf(response) ELSE SuggestionOf(response)
        received == [run EXCEPT !.responses = Append(@, response)]
    IN IF ~suggestion.ok
       THEN End([received EXCEPT !.generated = Some(suggestion)], "err")
       ELSE LET pushed == [received EXCEPT !.suggestions = Append(@, suggestion.val)]
            IN IF MoreTurns(pushed) THEN [pushed EXCEPT !.pc = "generate"]
               ELSE Generated(pushed)

\* The test of the stage-all prompt taking every line that begins with y.
says_yes_by_first_letter(line) ==
    trim(line) # <<>> /\ to_lowercase(trim(line))[1] = "y"

\* input.trim().to_lowercase() == "y"
says_yes(line) == to_lowercase(trim(line)) = <<"y">>

StageLines ==
    {<<"y", "LF">>, <<" ", "Y", " ", "LF">>, <<"y", "e", "s", "LF">>, <<"n", "LF">>, <<"LF">>}

ConfirmLines ==
    {<<"LF">>, <<"y", "LF">>, <<"n", "LF">>, <<"N", "O", " ", "LF">>,
     <<"e", "LF">>, <<"E", "d", "i", "t", "LF">>}

EditedMessage == <<Piece("fix: edited by hand", {"fix"})>>

InitCommand ==
    /\ repo_head \in {"commit", "unborn"}
    /\ repo_index \in CommandIndexStates(repo_head)
    /\ commits = IF repo_head = "commit" THEN <<FirstCommit>> ELSE <<>>
    /\ branches = NoBranches
    /\ now = 0
    /\ call = NoCall

\* gyst commit [--quick], gyst suggest: up to the first prompt or request.
StartCommand ==
    /\ call.op = "none"
    /\ \E op \in {"commit", "suggest"}, quick \in BOOLEAN, load \in Loads :
          /\ op = "suggest" => ~quick
          /\ call' = IF has_staged_changes(repo_index).val
                     THEN Prepare(NewRun(op, quick), repo_head, repo_index, load)
                     ELSE [NewRun(op, quick) EXCEPT !.pc = "ask_stage",
                                                    !.asked_to_stage = TRUE]
    /\ UNCHANGED <<repo_head, repo_index, commits, branches, now>>

\* The answer to "Would you like to stage all changes?".
AnswerStage ==
    /\ Running /\ call.pc = "ask_stage"
    /\ \E line \in StageLines, load \in Loads :
          IF says_yes(line)
          THEN /\ repo_index' = stage_all(repo_head, repo_index)
               /\ call' = Prepare([call EXCEPT !.stage_answer = line,
                                               !.staged_all = TRUE],
                                  repo_head, repo_index', load)
          ELSE /\ call' = End([call EXCEPT !.stage_answer = line], "ok")
               /\ UNCHANGED repo_index
    /\ UNCHANGED <<repo_head, commits, branches, now>>

\* The server's handler of POST /api/commit/suggestions.
ServerSuggestions ==
    /\ call.op = "none"
    /\ \E count \in {NoneArg, Some(0), Some(1), Some(2)}, key \in ApiKeys :
          call' = Generate([NewRun("server_suggestions", FALSE) EXCEPT
                               !.config = Some(ConfigFromFile(key, TRUE)),
                               !.asked_count = count],
                           IF count.some THEN count.val ELSE 3)
    /\ UNCHANGED <<repo_head, repo_index, commits, branches, now>>

\* client.post(...).send()
SendRequest ==
    /\ Running /\ call.pc = "generate"
    /\ call' = [call EXCEPT !.sent = @ + 1, !.pc = "await"]
    /\ UNCHANGED <<repo_head, repo_index, commits, branches, now>>

\* .await of the request in flight
ReceiveResponse ==
    /\ Running /\ call.pc = "await"
    /\ \E response \in Responses : call' = AfterResponse(call, response)
    /\ UNCHANGED <<repo_head, repo_index, commits, branches, now>>

\* The answer to "Use this message? [Y/n/e(edit)]", the editor included.
AnswerConfirm ==
    /\ Running /\ call.pc = "confirm"
    /\ \E line \in ConfirmLines, editor \in {"ok", "failed", "missing"} :
          LET answer == to_lowercase(trim(line))
              shown == [call EXCEPT !.answered = TRUE, !.answer = line]
          IN call' =
                IF answer \in {<<"n">>, <<"n", "o">>} THEN End(shown, "ok")
                ELSE IF answer \in {<<"e">>, <<"e", "d", "i", "t">>}
                THEN CASE editor = "missing" ->
                              End([shown EXCEPT !.editor = editor], "err")
                       [] editor = "failed" ->
                              End([shown EXCEPT !.editor = editor], "ok")
                       [] OTHER ->
                              [shown EXCEPT !.editor = editor,
                                            !.message = EditedMessage, !.pc = "create"]
                ELSE [shown EXCEPT !.pc = "create"]
    /\ UNCHANGED <<repo_head, repo_index, commits, branches, now>>

\* Select::interact_opt of the suggest command; 0 is no selection.
SelectMessage ==
    /\ Running /\ call.pc = "select"
    /\ \E selection \in 0..Len(call.suggestions) :
          call' = IF selection = 0 THEN End([call EXCEPT !.answered = TRUE], "ok")
                  ELSE [call EXCEPT !.answered = TRUE,
                                    !.message = call.suggestions[selection],
                                    !.pc = "create"]
    /\ UNCHANGED <<repo_head, repo_index, commits, branches, now>>

\* A call of create_commit from outside the commands.
CallCreateCommit ==
    /\ call.op = "none"
    /\ \E message \in Texts :
          call' = [NewRun("create_commit", FALSE) EXCEPT !.message = message,
                                                         !.pc = "create"]
    /\ UNCHANGED <<repo_head, repo_index, commits, branches, now>>

CreateCommit ==
    /\ Running /\ call.pc = "create"
    /\ \E signature \in BOOLEAN :
          LET after == create_commit(repo_head, repo_index, commits, call.message, signature)
              entry == [head |-> repo_head, index |-> repo_index, commits |-> commits,
                        generated |-> call.generated, answered |-> call.answered,
                        message |-> call.message,
                        result |-> after.result]
          IN /\ repo_head' = after.head
             /\ repo_index' = after.index
             /\ commits' = after.commits
             /\ call' = End([call EXCEPT !.commit_calls = Append(@, entry)],
                            IF after.result.ok THEN "ok" ELSE "err")
    /\ UNCHANGED <<branches, now>>

\* gyst explain: one call of CommandSuggester::suggest.
Explain ==
    /\ call.op = "none"
    /\ \E config \in Configs, response \in Responses :
          LET run == [NewRun("explain", FALSE) EXCEPT !.config = Some(config)]
          IN call' = IF get_api_key(config).some
                     THEN End([run EXCEPT !.sent = 1, !.responses = <<response>>,
                                          !.outcome = Some(suggest(config, response))],
                              "ok")
                     ELSE End([run EXCEPT !.outcome = Some(suggest(config, response))],
                              "ok")
    /\ UNCHANGED <<repo_head, repo_index, commits, branches, now>>

\* One call of ServerClient::generate_message.
ServerGenerateMessage ==
    /\ call.op = "none"
    /\ \E response \in ServerResponses :
          call' = End([NewRun("server_generate_message", FALSE) EXCEPT
                          !.sent = 1, !.responses = <<response>>,
                          !.outcome = Some(generate_message_by_server(response))],
                      "ok")
    /\ UNCHANGED <<repo_head, repo_index, commits, branches, now>>

\* gyst config --show
ShowConfig ==
    /\ call.op = "none"
    /\ \E config \in Configs :
          call' = End([NewRun("config", FALSE) EXCEPT !.config = Some(config),
                                                      !.output = display(config)],
                      "ok")
    /\ UNCHANGED <<repo_head, repo_index, commits, branches, now>>

NextCommand ==
    \/ StartCommand
    \/ AnswerStage
    \/ ServerSuggestions
    \/ SendRequest
    \/ ReceiveResponse
    \/ AnswerConfirm
    \/ SelectMessage
    \/ CallCreateCommit
    \/ CreateCommit
    \/ Explain
    \/ ServerGenerateMessage
    \/ ShowConfig

SpecCommand == InitCommand /\ [][NextCommand]_vars

(***************************************************************************)
(* Properties of GitRepo, checked under SpecGit.                           *)
(***************************************************************************)
Done(op) == call.op = op

\* The files of the diff that carry line changes.
FilesWithLines(index) ==
    {Deltas(index)[n].file : n \in {m \in 1..Len(Deltas(index)) : Deltas(index)[m].hunks > 0}}

\* The file a line of a DiffHunk came from (its content names it).
FileOfLine(line) == line.content[3]

\* C1: concatenating each DiffHunk's header and the content of its lines, in
\* the order get_structured_diff returns them (the commit command's diff
\* string), is identical to the raw patch text of the same index-vs-HEAD diff.
C1_DiffTextIsRawPatch ==
    (Done("commit_diff") /\ call.result.ok) =>
        call.result.val.diff = RawPatchText(PatchStream(Deltas(repo_index)))

\* C2: in every StagedChanges that get_staged_changes returns, files_changed
\* is the sum of the lengths of added, modified, deleted and renamed.
C2_FilesChangedIsSumOfLists ==
    (Done("get_staged_changes") /\ call.result.ok) =>
        LET changes == call.result.val
        IN changes.stats.files_changed =
              Len(changes.added) + Len(changes.modified)
            + Len(changes.deleted) + Len(changes.renamed)

\* C2 witness: get_staged_changes has counted at least one file in a
\* repository that also reports a renamed entry without a head-to-index
\* delta or a type-changed entry.
C2_Witness ==
    /\ Done("get_staged_changes")
    /\ call.result.ok
    /\ call.result.val.stats.files_changed >= 1
    /\ \E i \in 1..Len(repo_index) : repo_index[i].kind = "renamed_nodelta"

\* C4: with no HEAD commit and one new file staged, get_staged_changes
\* returns added = [that file], renamed = [], files_changed = 1, and get_diff
\* and get_structured_diff both return Ok.
C4_InitialCommitDiffSucceeds ==
    (/\ repo_head = "unborn"
     /\ Len(repo_index) = 1
     /\ repo_index[1].kind = "new") =>
        /\ Done("get_staged_changes") =>
              /\ call.result.ok
              /\ call.result.val.added = <<PathOf(1)>>
              /\ call.result.val.renamed = <<>>
              /\ call.result.val.stats.files_changed = 1
        /\ Done("get_diff") => call.result.ok
        /\ Done("get_structured_diff") => call.result.ok

\* The number of lists of a StagedChanges that hold the path of entry i.
ListsHolding(changes, i) ==
      (IF \E n \in 1..Len(changes.added) : changes.added[n] = PathOf(i) THEN 1 ELSE 0)
    + (IF \E n \in 1..Len(changes.modified) : changes.modified[n] = PathOf(i) THEN 1 ELSE 0)
    + (IF \E n \in 1..Len(changes.deleted) : changes.deleted[n] = PathOf(i) THEN 1 ELSE 0)
    + (IF \E n \in 1..Len(changes.renamed) : changes.renamed[n][2] = PathOf(i) THEN 1 ELSE 0)

\* C5: every path whose index entry differs from HEAD (new, modified,
\* deleted, renamed or type-changed in the index) is in exactly one of the
\* lists added, modified, deleted, renamed.  (Stated for the entries that
\* carry a head-to-index delta.)
C5_EveryDifferingPathInExactlyOneList ==
    (Done("get_staged_changes") /\ call.result.ok) =>
        \A i \in 1..Len(repo_index) :
            LET entry == Statuses(repo_index)[i]
            IN (/\ entry.head_to_index.present
                /\ \/ is_index_new(entry.status)
                   \/ is_index_modified(entry.status)
                   \/ is_index_deleted(entry.status)
                   \/ is_index_renamed(entry.status)
                   \/ is_index_typechange(entry.status))
               => ListsHolding(call.result.val, i) = 1

\* C10: an open hunk record is closed at every file-delta boundary: no
\* returned DiffHunk holds lines of two different files, and a diff touching
\* n files with line changes yields at least n DiffHunk records.
C10_HunkClosedAtEveryFileBoundary ==
    (Done("get_structured_diff") /\ call.result.ok) =>
        LET hunks == call.result.val
        IN /\ \A n \in 1..Len(hunks) :
                \A a, b \in 1..Len(hunks[n].lines) :
                    FileOfLine(hunks[n].lines[a]) = FileOfLine(hunks[n].lines[b])
           /\ Len(hunks) >= Cardinality(FilesWithLines(repo_index))


\* The calls of a stream that carry a hunk, and the DiffLine each delivers.
HunkCallsOf(stream) == SelectSeq(stream, LAMBDA c : c.hunk.present)

Delivered(stream) ==
    LET cs == HunkCallsOf(stream)
    IN [n \in 1..Len(cs) |-> [origin |-> cs[n].line.origin,
                              content |-> cs[n].line.content]]

\* The positions of a stream at which a record is opened: a call carrying a
\* hunk, with no earlier such call or with a hunk-less call of a Renamed
\* delta since the last one.
Openings(stream) ==
    {p \in 1..Len(stream) :
        /\ stream[p].hunk.present
        /\ LET before == {q \in 1..(p - 1) : stream[q].hunk.present}
           IN \/ before = {}
              \/ \E q \in 1..(p - 1) :
                    /\ \A r \in before : r < q
                    /\ ~stream[q].hunk.present
                    /\ stream[q].delta.status = "Renamed"}

RECURSIVE Ascending(_)
Ascending(ps) ==
    IF ps = {} THEN <<>>
    ELSE LET least == CHOOSE p \in ps : \A q \in ps : p <= q
         IN <<least>> \o Ascending(ps \ {least})

\* C11: when get_structured_diff returns Ok, every hunk record that was
\* opened is in the returned list exactly once (the record still open at the
\* end of the stream included), and the lines delivered together with a hunk
\* are, in stream order and each exactly once, the lines of the returned
\* records.
C11_EveryOpenedRecordAndLineReturnedOnce ==
    (Done("get_structured_diff") /\ call.result.ok) =>
        LET hunks == call.result.val
            stream == PatchStream(Deltas(repo_index))
            opened == Ascending(Openings(stream))
        IN /\ Len(hunks) = Len(opened)
           /\ \A n \in 1..Len(hunks) :
                 /\ hunks[n].header = stream[opened[n]].hunk.header
                 /\ hunks[n].lines # <<>>
                 /\ hunks[n].lines[1].content = stream[opened[n]].line.content
           /\ Concat([n \in 1..Len(hunks) |-> hunks[n].lines]) = Delivered(stream)

\* C11 witness: get_structured_diff returned two records, the first closed
\* inside the stream and the last one still open when the stream ended.
C11_Witness ==
    /\ Done("get_structured_diff")
    /\ call.result.ok
    /\ Len(call.result.val) >= 2
    /\ LET stream == PatchStream(Deltas(repo_index))
       IN stream[Len(stream)].hunk.present

\* The delta a returned line came from: its place in the diff.
DeltaOfLine(line, deltas) ==
    CHOOSE n \in 1..Len(deltas) :
        /\ deltas[n].status = line.content[2]
        /\ deltas[n].file = line.content[3]

\* C12: a record that is open when the stream reaches a Renamed delta is
\* flushed there: no returned record holds a line of an earlier delta
\* together with a line of the Renamed delta or of a later one, also when
\* the Renamed delta carries hunks of its own.
C12_RenamedDeltaFlushesOpenRecord ==
    (Done("get_structured_diff") /\ call.result.ok) =>
        LET hunks == call.result.val
            deltas == Deltas(repo_index)
        IN \A n \in 1..Len(hunks) : \A a, b \in 1..Len(hunks[n].lines) :
              \A d \in 1..Len(deltas) :
                 deltas[d].status = "Renamed" =>
                    ~(/\ DeltaOfLine(hunks[n].lines[a], deltas) < d
                      /\ DeltaOfLine(hunks[n].lines[b], deltas) >= d)

\* C12 witness: a delta with hunks is followed by a Renamed delta with hunks,
\* and get_structured_diff returned the lines of the two in different
\* records.
C12_Witness ==
    /\ Done("get_structured_diff")
    /\ call.result.ok
    /\ Len(repo_index) = 2
    /\ repo_index[1].kind = "modified" /\ repo_index[1].hunks >= 1
    /\ repo_index[2].kind = "renamed_modified"
    /\ \E n \in 1..Len(call.result.val) :
          FileOfLine(call.result.val[n].lines[1]) = 2

\* C20: if computing the index-vs-HEAD diff fails while get_staged_changes
\* gathers the line statistics, get_staged_changes returns that error
\* instead of Ok with insertions and deletions left at 0.
C20_DiffFailureIsReturned ==
    (Done("get_staged_changes") /\ ~get_diff(repo_head, repo_index).ok) =>
        call.result = get_diff(repo_head, repo_index)


(***************************************************************************)
(* Properties of BranchAnalyzer, checked under SpecBranch.                 *)
(***************************************************************************)
HasLocal(name) == \E n \in 1..Len(branches) :
                      branches[n].name = name /\ branches[n].type = "Local"

\* The commit a local branch that exists points at.
LocalTip(name) ==
    branches[CHOOSE n \in 1..Len(branches) :
                branches[n].name = name /\ branches[n].type = "Local"].target.val

\* The BranchHealth records the completed call returned.
Records ==
    IF Done("analyze_branch") /\ call.result.ok THEN {call.result.val}
    ELSE IF Done("analyze_branches") /\ call.result.ok
    THEN {call.result.val[n] : n \in 1..Len(call.result.val)}
    ELSE {}

\* C3: status is Stale iff last_activity.days >= 30, NeedsAttention iff
\* 7 <= last_activity.days < 30 and Healthy otherwise; records with the same
\* last_activity.days have the same status whatever their other fields.
C3_StatusFromLastActivityDays ==
    /\ \A r \in Records :
          /\ r.status = "Stale" <=> U32Ge(r.last_activity.days, AsU32(30))
          /\ r.status = "NeedsAttention" <=>
                (/\ U32Ge(r.last_activity.days, AsU32(7))
                 /\ ~U32Ge(r.last_activity.days, AsU32(30)))
          /\ r.status = "Healthy" <=> ~U32Ge(r.last_activity.days, AsU32(7))
    /\ \A r, q \in Records :
          r.last_activity.days = q.last_activity.days => r.status = q.status

\* C3 witness: analyze_branch has classified a branch whose last activity
\* is exactly 30 days old as Stale.
C3_Witness ==
    /\ Done("analyze_branch")
    /\ call.result.ok
    /\ call.result.val.last_activity.days = AsU32(30)
    /\ call.result.val.status = "Stale"

\* C6: when the local branches main and master both exist, analyze_branch
\* uses main as the reference for the ahead/behind distance and for the merge
\* base the age is computed from: the analysis succeeds exactly when the
\* branch shares history with main, and then reports the distance from main
\* and the age relative to the merge base with main.
C6_MainIsTheReference ==
    (/\ Done("analyze_branch")
     /\ HasLocal("main")
     /\ HasLocal("master")
     /\ call.branch.target.some) =>
        LET tip == call.branch.target.val
            base == merge_base(tip, LocalTip("main"))
        IN /\ call.result.ok <=> base.ok
           /\ call.result.ok =>
                /\ <<call.result.val.ahead_count, call.result.val.behind_count>>
                      = graph_ahead_behind(tip, LocalTip("main")).val
                /\ call.result.val.age_display
                      = to_string(calculate_time_ago(age_time(tip, base.val)).val)

\* C7 as claimed: analyze_branches on a repository with neither a local main
\* nor a local master fails for the whole scan.
C7_NoMainBranchFailsTheScan ==
    (/\ Done("analyze_branches")
     /\ ~HasLocal("main")
     /\ ~HasLocal("master")) => ~call.result.ok

\* C7 as amended: analyze_branches on a repository with neither a local main
\* nor a local master returns Ok with an empty list, every branch skipped.
C7_NoMainBranchYieldsEmptyList ==
    (/\ Done("analyze_branches")
     /\ ~HasLocal("main")
     /\ ~HasLocal("master")) => call.result = Ok(<<>>)

\* C7 witness: a scan of all branches of a repository with two branches,
\* neither main nor master among them, has returned the empty list.
C7_Witness ==
    /\ Done("analyze_branches")
    /\ call.filter = "All"
    /\ ~HasLocal("main")
    /\ ~HasLocal("master")
    /\ Len(branches) >= 2
    /\ call.result = Ok(<<>>)

\* The branches a scan with this filter enumerates, in order.
InScope(filter) ==
    LET Matches(b) == filter = "All" \/ b.type = filter
    IN SelectSeq(branches, Matches)

\* The reference the merge base is taken with: master, else main.
BaseReference == IF HasLocal("master") THEN LocalTip("master") ELSE LocalTip("main")

\* The analysis of a branch succeeds: its tip is a commit, a main or master
\* branch exists and the branch shares history with the merge-base reference.
AnalysisSucceeds(b) ==
    /\ b.target.some
    /\ HasLocal("main") \/ HasLocal("master")
    /\ Ancestors(b.target.val) \cap Ancestors(BaseReference) # {}

\* A branch passes the filters of the completed scan.
PassesFilters(b) ==
    /\ call.days.some =>
          U32Ge(AsU32(call.days.val),
                AsU32(TruncDiv(now - commits[b.target.val].time, Day)))
    /\ call.author.some => commits[b.target.val].author = call.author.val

\* C8: a branch whose analysis fails is skipped without aborting the scan:
\* analyze_branches returns Ok with exactly the records of the branches whose
\* analysis succeeded and that pass the filters, in enumeration order.
C8_FailedBranchesAreSkipped ==
    Done("analyze_branches") =>
        LET Kept(b) == AnalysisSucceeds(b) /\ PassesFilters(b)
            kept == SelectSeq(InScope(call.filter), Kept)
        IN /\ call.result.ok
           /\ Len(call.result.val) = Len(kept)
           /\ \A n \in 1..Len(kept) :
                 call.result.val[n] = analyze_branch(kept[n]).val

\* C8 witness: a scan has returned the record of a branch that was
\* enumerated after a branch whose analysis failed.
C8_Witness ==
    /\ Done("analyze_branches")
    /\ call.result.ok
    /\ \E n, m \in 1..Len(InScope(call.filter)) :
          /\ n < m
          /\ ~analyze_branch(InScope(call.filter)[n]).ok
          /\ \E k \in 1..Len(call.result.val) :
                call.result.val[k].name = InScope(call.filter)[m].name

\* The smallest commit time of a set of commits.
OldestTime(cs) ==
    commits[CHOOSE c \in cs : \A d \in cs : commits[c].time <= commits[d].time].time

\* C9: for a branch with commits that are ancestors of its tip but not of
\* the merge base with the main branch, the age analyze_branch reports is
\* computed from the commit time of the oldest such commit.  (Stated where
\* main-first and master-first resolution name the same commit and no
\* commit is dated in the future.)
C9_AgeFromOldestUniqueCommit ==
    (/\ Done("analyze_branch")
     /\ call.result.ok
     /\ \A c \in Commits : commits[c].time <= now
     /\ HasLocal("main") /\ HasLocal("master") => LocalTip("main") = LocalTip("master")) =>
        LET tip == call.branch.target.val
            base == merge_base(tip, BaseReference).val
            unique == Ancestors(tip) \ Ancestors(base)
        IN unique # {} =>
              call.result.val.age_display
                 = to_string(calculate_time_ago(OldestTime(unique)).val)

\* The branch a record is about, and the time of the commit it points at.
BranchNamed(name) == branches[CHOOSE n \in 1..Len(branches) : branches[n].name = name]

TipTime(r) == commits[BranchNamed(r.name).target.val].time

\* C13: for a commit not later than now, with d = now - commit time,
\* calculate_time_ago returns days = d div 86400, hours = (d mod 86400) div
\* 3600 and minutes = (d mod 3600) div 60, so that
\* days*86400 + hours*3600 + minutes*60 <= d < days*86400 + hours*3600 + minutes*60 + 60.
C13_TimeAgoDecomposesDelta ==
    \A r \in Records :
        LET d == now - TipTime(r)
            days == d \div 86400
            hours == (d % 86400) \div 3600
            minutes == (d % 3600) \div 60
        IN d >= 0 =>
            /\ r.last_activity = [days |-> AsU32(days), hours |-> AsU32(hours),
                                  minutes |-> AsU32(minutes)]
            /\ days * 86400 + hours * 3600 + minutes * 60 <= d
            /\ d < days * 86400 + hours * 3600 + minutes * 60 + 60

\* C13 witness: a record of a commit some days, hours and minutes old.
C13_Witness ==
    \E r \in Records :
        /\ now - TipTime(r) >= 0
        /\ U32Gt(r.last_activity.days, AsU32(0))
        /\ U32Gt(r.last_activity.hours, AsU32(0))
        /\ U32Gt(r.last_activity.minutes, AsU32(0))

\* The u32 the caller holds denotes the integer x; a u32 denotes no negative
\* integer.
Denotes(u, x) == x >= 0 /\ u = AsU32(x)

\* C14: for a commit later than now, calculate_time_ago does not fail and
\* the days, hours and minutes the caller receives are the negative values
\* the decomposition of the delta yields.
C14_NegativeDeltaStaysNegative ==
    \A r \in Records :
        LET d == now - TipTime(r)
        IN d < 0 =>
            /\ Denotes(r.last_activity.days, TruncDiv(d, 86400))
            /\ Denotes(r.last_activity.hours, TruncDiv(TruncRem(d, 86400), 3600))
            /\ Denotes(r.last_activity.minutes,
                       TruncDiv(TruncRem(TruncRem(d, 86400), 3600), 60))

\* The reference of the distance: main, else master.
DistanceReference == IF HasLocal("main") THEN LocalTip("main") ELSE LocalTip("master")

\* C15: ahead and behind are antisymmetric: the counts of a against b are
\* the counts of b against a swapped, for the commits of the repository and
\* for the counts a record reports against the reference; a branch at the
\* reference commit has ahead_count = behind_count = 0.
C15_AheadBehindAntisymmetric ==
    /\ \A a, b \in DOMAIN commits :
          /\ graph_ahead_behind(a, b).val[1] = graph_ahead_behind(b, a).val[2]
          /\ graph_ahead_behind(a, b).val[2] = graph_ahead_behind(b, a).val[1]
    /\ \A r \in Records :
          LET tip == BranchNamed(r.name).target.val
              back == graph_ahead_behind(DistanceReference, tip).val
          IN /\ r.ahead_count = Cardinality(Ancestors(tip) \ Ancestors(DistanceReference))
             /\ r.behind_count = Cardinality(Ancestors(DistanceReference) \ Ancestors(tip))
             /\ <<r.ahead_count, r.behind_count>> = <<back[2], back[1]>>
             /\ tip = DistanceReference => (r.ahead_count = 0 /\ r.behind_count = 0)

\* C15 witness: one scan reports a branch at the reference commit and a
\* branch that is ahead of the reference by another count than it is behind.
C15_Witness ==
    /\ \E r \in Records : BranchNamed(r.name).target.val = DistanceReference
    /\ \E r \in Records : r.ahead_count # r.behind_count /\ r.behind_count > 0

\* C17: analyze_branches(scope, days, author) returns exactly the
\* subsequence of analyze_branches(scope, None, None) whose records have
\* last_activity.days <= days and author equal, case included, to the given
\* name; the kept records are the unfiltered ones, status included.
C17_FiltersSelectFromUnfiltered ==
    Done("analyze_branches") =>
        LET Kept(r) ==
                /\ call.days.some => U32Ge(AsU32(call.days.val), r.last_activity.days)
                /\ call.author.some => r.author = call.author.val
        IN /\ call.result.ok
           /\ call.result.val =
                 SelectSeq(analyze_branches(call.filter, NoneArg, NoneArg).val, Kept)

\* C17 witness: a scan with both filters kept a record whose last activity
\* is exactly `days` days old, and left out a record of the unfiltered scan
\* whose author differs from the given name in case only.
C17_Witness ==
    /\ Done("analyze_branches")
    /\ call.days.some /\ call.author.some
    /\ \E n \in 1..Len(call.result.val) :
          call.result.val[n].last_activity.days = AsU32(call.days.val)
    /\ LET all == analyze_branches(call.filter, NoneArg, NoneArg).val
       IN \E n \in 1..Len(all) :
             /\ all[n].author = "Alice"
             /\ call.author.val = "alice"
             /\ \A m \in 1..Len(call.result.val) : call.result.val[m] # all[n]

\* C18: a Local scan reports only local branches, a Remote scan only
\* remote-tracking ones, an All scan the local ones followed by the
\* remote-tracking ones (all of them that analyse, when no filter is given);
\* no branch is reported twice.
C18_ScopeSelectsBranchTypes ==
    (Done("analyze_branches") /\ call.result.ok) =>
        LET rs == call.result.val
            TypeOf(n) == BranchNamed(rs[n].name).type
        IN /\ \A n \in 1..Len(rs) :
                 /\ \E k \in 1..Len(branches) : branches[k].name = rs[n].name
                 /\ call.filter = "All" \/ TypeOf(n) = call.filter
           /\ \A m, n \in 1..Len(rs) :
                 m < n => /\ rs[m].name # rs[n].name
                          /\ ~(TypeOf(m) = "Remote" /\ TypeOf(n) = "Local")
           /\ (~call.days.some /\ ~call.author.some) =>
                 {rs[n].name : n \in 1..Len(rs)} =
                 {branches[k].name : k \in {j \in 1..Len(branches) :
                                              /\ call.filter \in {"All", branches[j].type}
                                              /\ AnalysisSucceeds(branches[j])}}

\* C18 witness: an All scan reported a local and a remote-tracking branch.
C18_Witness ==
    /\ Done("analyze_branches")
    /\ call.result.ok
    /\ call.filter = "All"
    /\ \E m, n \in 1..Len(call.result.val) :
          /\ BranchNamed(call.result.val[m].name).type = "Local"
          /\ BranchNamed(call.result.val[n].name).type = "Remote"


C28_TimeAgoInRangeForEveryTimestamp ==
    \A r \in Records :
        LET d == now - TipTime(r)
        IN /\ U32Ge(AsU32(23), r.last_activity.hours)
           /\ U32Ge(AsU32(59), r.last_activity.minutes)
           /\ d >= 0 => r.last_activity.days = AsU32(d \div 86400)
           /\ d < 0 => r.status = "Healthy"

(***************************************************************************)
(* Properties of the health report, checked under SpecReport.              *)
(***************************************************************************)
\* C16: running analyze_branches twice with the same arguments against an
\* unchanged repository yields identical BranchHealth lists, however much
\* time passes between the two runs.
C16_RescanIsIdentical ==
    Done("rescan") => call.result = call.first

\* The fields of a record that are not computed from the current time.
Timeless(r) ==
    [name |-> r.name, author |-> r.author, commit_count |-> r.commit_count,
     ahead_count |-> r.ahead_count, behind_count |-> r.behind_count]

\* C16, amended: whatever time passes between the two runs, a branch that
\* both report has the same name, author, commit_count, ahead_count and
\* behind_count in both, and without a days filter the two lists report the
\* same branches in the same order; last_activity, age and status follow the
\* clock.
C16_RescanKeepsTimelessFields ==
    Done("rescan") =>
        LET first == call.first.val
            second == call.result.val
        IN /\ call.first.ok /\ call.result.ok
           /\ \A m \in 1..Len(first) : \A n \in 1..Len(second) :
                 first[m].name = second[n].name =>
                    Timeless(first[m]) = Timeless(second[n])
           /\ ~call.days.some =>
                 /\ Len(first) = Len(second)
                 /\ \A n \in 1..Len(first) : first[n].name = second[n].name

\* C16 witness: the second of two runs without a days filter, a minute or
\* more after the first, reports the same branches with another last
\* activity or status.
C16_Witness ==
    /\ Done("rescan")
    /\ now > call.at
    /\ ~call.days.some
    /\ Len(call.result.val) >= 2
    /\ call.result # call.first

\* The records a rendering carries, read back from it: the eight fields of
\* each entry, in the order of the entries.
ReadText(lines) ==
    [n \in 1..((Len(lines) - 3) \div 8) |->
        LET at(k) == lines[3 + 8 * (n - 1) + k]
        IN [name |-> at(1)[1], status |-> at(2)[4], age |-> at(3)[2],
            last_activity |-> at(4)[2], author |-> at(5)[2], commit_count |-> at(6)[2],
            ahead_count |-> at(7)[2], behind_count |-> at(7)[4]]]

ReadMarkdown(lines) ==
    [n \in 1..((Len(lines) - 4) \div 11) |->
        LET at(k) == lines[4 + 11 * (n - 1) + k]
        IN [name |-> at(1)[2], status |-> at(5)[4], age |-> at(6)[2],
            last_activity |-> at(7)[2], author |-> at(8)[2], commit_count |-> at(9)[2],
            ahead_count |-> at(10)[2], behind_count |-> at(10)[4]]]

ReadJson(objects) ==
    [n \in 1..Len(objects) |->
        LET value(key) ==
                objects[n][CHOOSE k \in 1..Len(objects[n]) : objects[n][k][1] = key][2]
        IN [name |-> value("name"), status |-> value("status"), age |-> value("age"),
            last_activity |-> value("last_activity"), author |-> value("author"),
            commit_count |-> value("commit_count"),
            ahead_count |-> value("ahead_count"), behind_count |-> value("behind_count")]]

ReadBack(format, rendering) ==
    CASE format = "Text" -> ReadText(rendering)
      [] format = "Markdown" -> ReadMarkdown(rendering)
      [] format = "Json" -> ReadJson(rendering)

\* C19: format_output, in each of Text, Json and Markdown, leaves the list
\* as it was given (the one the scan returned) and renders one entry per record, in list
\* order, carrying the record's name, status, age string, last-activity
\* string, author, commit_count, ahead_count and behind_count.
C19_FormatOutputRendersEveryRecord ==
    Done("format_output") =>
        /\ call.result.ok
        /\ call.results = call.scanned
        /\ LET entries == ReadBack(call.format, call.result.val)
           IN /\ Len(entries) = Len(call.results)
              /\ \A n \in 1..Len(entries) :
                    entries[n] =
                        [name |-> call.results[n].name,
                         status |-> call.results[n].status,
                         age |-> call.results[n].age_display,
                         last_activity |-> call.results[n].last_activity_display,
                         author |-> call.results[n].author,
                         commit_count |-> call.results[n].commit_count,
                         ahead_count |-> call.results[n].ahead_count,
                         behind_count |-> call.results[n].behind_count]

\* C19 witness: a Markdown report of two records, one of them with an ahead
\* count that differs from its behind count.
C19_Witness ==
    /\ Done("format_output")
    /\ call.format = "Markdown"
    /\ Len(call.results) >= 2
    /\ \E n \in 1..Len(call.results) :
          call.results[n].ahead_count # call.results[n].behind_count

(***************************************************************************)
(* Properties of the commands, checked under SpecCommand.                  *)
(***************************************************************************)
Generating == call.op \in {"commit", "suggest", "server_suggestions"}

\* What the loop makes of the n-th response of the run.
TurnOf(n) ==
    IF call.op = "server_suggestions" THEN ServerSuggestionOf(call.responses[n])
    ELSE SuggestionOf(call.responses[n])

\* C21: generate_suggestions(count = n) sends at most n requests, one after
\* another (a request is sent only when every earlier one has been answered
\* with a usable message), and the first failing request ends the operation
\* with an error: nothing is sent after it and no list is returned.
C21_RequestsAreSequentialAndStopAtFirstFailure ==
    Generating =>
        /\ call.sent <= call.count
        /\ call.sent - Len(call.responses) = (IF call.pc = "await" THEN 1 ELSE 0)
        /\ Len(call.suggestions) = Cardinality({n \in 1..Len(call.responses) : TurnOf(n).ok})
        /\ \A n \in 1..Len(call.responses) :
              ~TurnOf(n).ok =>
                 /\ n = call.sent
                 /\ call.exit = "err"
                 /\ call.generated = Some(TurnOf(n))
                 /\ call.commit_calls = <<>>

C21_Witness ==
    /\ call.op = "suggest" /\ call.count = 3
    /\ Len(call.responses) = 2 /\ call.sent = 2
    /\ TurnOf(1).ok /\ ~TurnOf(2).ok
    /\ call.exit = "err"

\* A response of the service whose status is not a success or whose body
\* has no usable text content.
Unusable(response) ==
    /\ response.sent
    /\ \/ ~is_success(response.status)
       \/ ~response.body.parses
       \/ response.body.content = <<>>

Panicked(outcome) == "panic" \in DOMAIN outcome

\* C22: on a response with a non-success status or without usable text
\* content, generate_suggestions, CommandSuggester::suggest and
\* ServerClient::generate_message return an error: never a success value
\* built from that response, and never a panic.
C22_UnusableResponseIsAnError ==
    /\ call.op \in {"commit", "suggest"} =>
          \A n \in 1..Len(call.responses) :
              Unusable(call.responses[n]) => ~TurnOf(n).ok
    /\ call.op = "explain" /\ call.sent = 1 /\ Unusable(call.responses[1]) =>
          /\ ~call.outcome.val.ok
          /\ ~Panicked(call.outcome.val)
    /\ call.op = "server_generate_message"
         /\ (~is_success(call.responses[1].status) \/ ~call.responses[1].body.parses) =>
          /\ ~call.outcome.val.ok
          /\ ~Panicked(call.outcome.val)

\* The line, surrounding whitespace removed, is n or no in some case.
SaysNo(line) ==
    trim(line) \in {<<"n">>, <<"N">>, <<"n", "o">>, <<"N", "o">>, <<"n", "O">>, <<"N", "O">>}

GenerationSucceeded(entry) == entry.generated.some /\ entry.generated.val.ok

\* C23: the commit command without --quick calls create_commit only after
\* the proposed message was shown and answered; an answer of n or no and an
\* editor that exits unsuccessfully end the run with no commit; with --quick
\* the generated message is committed without a confirmation prompt; a run
\* creates at most one commit, and none before generation succeeded.
C23_CommitOnlyAfterConfirmation ==
    call.op \in {"commit", "suggest"} =>
        /\ Len(call.commit_calls) <= 1
        /\ \A n \in 1..Len(call.commit_calls) : GenerationSucceeded(call.commit_calls[n])
        /\ call.op = "commit" /\ ~call.quick =>
              /\ \A n \in 1..Len(call.commit_calls) : call.commit_calls[n].answered
              /\ call.pc = "create" => call.answered
              /\ call.answered /\ SaysNo(call.answer) =>
                    call.pc = "done" /\ call.exit = "ok" /\ call.commit_calls = <<>>
              /\ call.editor = "failed" =>
                    call.pc = "done" /\ call.exit = "ok" /\ call.commit_calls = <<>>
        /\ call.op = "commit" /\ call.quick =>
              /\ ~call.answered /\ call.pc # "confirm"
              /\ GenerationSucceeded(call) =>
                    call.pc = "create" \/ Len(call.commit_calls) = 1
              /\ \A n \in 1..Len(call.commit_calls) :
                    call.commit_calls[n].message = call.commit_calls[n].generated.val.val[1]

C23_Witness ==
    /\ call.op = "commit" /\ ~call.quick
    /\ GenerationSucceeded(call)
    /\ call.answer = <<"N", "O", " ", "LF">>
    /\ call.pc = "done" /\ call.commit_calls = <<>>

\* The line, surrounding whitespace removed, is y in some case.
SaysY(line) == trim(line) \in {<<"y">>, <<"Y">>}

\* C24: when has_staged_changes is false the commit and suggest commands
\* offer to stage all changes; stage_all is called only on the answer y
\* (any case, surrounding whitespace ignored), and every other answer ends
\* the command successfully with stage_all not called, no generation request
\* sent and no commit created.
C24_StageAllOnlyOnYes ==
    call.op \in {"commit", "suggest"} =>
        /\ ~call.asked_to_stage /\ call.commit_calls = <<>> =>
              has_staged_changes(repo_index).val
        /\ call.asked_to_stage /\ ~call.staged_all =>
              ~has_staged_changes(repo_index).val
        /\ call.staged_all => call.asked_to_stage /\ SaysY(call.stage_answer)
        /\ call.asked_to_stage /\ call.pc # "ask_stage" /\ ~SaysY(call.stage_answer) =>
              /\ ~call.staged_all
              /\ call.pc = "done" /\ call.exit = "ok"
              /\ call.sent = 0 /\ call.responses = <<>>
              /\ call.commit_calls = <<>>

C24_Witness ==
    /\ call.op = "suggest" /\ call.asked_to_stage
    /\ call.stage_answer = <<"y", "e", "s", "LF">>
    /\ \E n \in 1..Len(repo_index) : repo_index[n].kind = "wt_modified"
    /\ call.pc = "done" /\ call.exit = "ok"

\* C26: the commit and suggest commands never call create_commit while the
\* index has no staged difference from HEAD, also when the user accepted
\* "stage all" in a working tree with nothing to stage.
C26_CommitOnlyWithStagedChanges ==
    call.op \in {"commit", "suggest"} =>
        \A n \in 1..Len(call.commit_calls) :
            has_staged_changes(call.commit_calls[n].index).val

\* C27: when create_commit returns Ok, HEAD points to the new commit, whose
\* parent list is exactly the previous HEAD commit (empty when there was no
\* HEAD) and whose tree is the tree written from the index, and
\* has_staged_changes is false; when it returns an error HEAD and the
\* commits are as they were.
C27_CreateCommitAdvancesHead ==
    call.op # "none" =>
        \A n \in 1..Len(call.commit_calls) :
            LET before == call.commit_calls[n]
                previous == head_commit(before.head, before.commits)
            IN IF before.result.ok
               THEN /\ repo_head = "commit"
                    /\ head_commit(repo_head, commits) = Some(before.result.val)
                    /\ SubSeq(commits, 1, Len(before.commits)) = before.commits
                    /\ Len(commits) = Len(before.commits) + 1
                    /\ commits[before.result.val].parents =
                          (IF previous.some THEN <<previous.val>> ELSE <<>>)
                    /\ commits[before.result.val].tree =
                          write_tree(before.head, before.index, before.commits)
                    /\ commits[before.result.val].message = before.message
                    /\ ~has_staged_changes(repo_index).val
               ELSE /\ repo_head = before.head
                    /\ commits = before.commits
                    /\ repo_index = before.index

C27_Witness ==
    /\ call.op = "create_commit" /\ Len(call.commit_calls) = 1
    /\ call.commit_calls[1].head = "unborn"
    /\ call.commit_calls[1].result.ok
    /\ has_staged_changes(call.commit_calls[1].index).val
    /\ commits[1].parents = <<>>

\* The number of messages the run asked its generator for.
AskedFor ==
    CASE call.op = "commit" -> 1
      [] call.op = "suggest" -> 3
      [] OTHER -> IF call.asked_count.some THEN call.asked_count.val ELSE 3

\* C29: a successful generate_suggestions(count = n) returns exactly n
\* messages (1 for the commit command, 3 for suggest and for a server
\* request without count), so generate_message always finds a first element
\* and does not panic.
C29_SuccessReturnsExactlyCountMessages ==
    Generating =>
        /\ call.exit # "panic"
        /\ call.generated.some /\ call.generated.val.ok =>
              /\ Len(call.generated.val.val) = AskedFor
              /\ Len(call.responses) = AskedFor
              /\ \A n \in 1..AskedFor : call.generated.val.val[n] = TurnOf(n).val
              /\ call.op = "commit" /\ call.editor # "ok" =>
                    call.message = call.generated.val.val[1]

C29_Witness ==
    /\ call.op = "server_suggestions" /\ ~call.asked_count.some
    /\ call.generated.some /\ call.generated.val.ok
    /\ Len(call.generated.val.val) = 3
    /\ call.generated.val.val[1] # call.generated.val.val[3]

\* The two configurations differ in nothing but their non-empty API keys.
DifferOnlyInKey(a, b) ==
    /\ a.ai.api_key # "" /\ b.ai.api_key # "" /\ a.ai.api_key # b.ai.api_key
    /\ [a EXCEPT !.ai.api_key = ""] = [b EXCEPT !.ai.api_key = ""]

\* C30: Config::display never reveals the API key: its API Key line shows
\* ******** for a key and <not set> for none, and configurations that differ
\* only in their non-empty keys display identically; get_api_key is None
\* exactly when the key is empty, and then generate_suggestions and suggest
\* fail before any request is sent.
C30_ApiKeyIsNeverDisplayed ==
    /\ call.op = "config" =>
          LET config == call.config.val
          IN /\ call.output[4][1] = "  API Key: "
             /\ call.output[4][2] = (IF config.ai.api_key = "" THEN "<not set>"
                                     ELSE "********")
             /\ call.output[4][2] \notin ApiKeys
             /\ \A n \in {2, 3} : call.output[n][2] \notin ApiKeys
             /\ \A other \in Configs :
                   DifferOnlyInKey(config, other) => display(other) = call.output
    /\ call.op \in {"commit", "suggest", "server_suggestions", "explain"}
         /\ call.config.some =>
          LET config == call.config.val
          IN /\ get_api_key(config).some = (config.ai.api_key # "")
             /\ get_api_key(config).some => get_api_key(config).val = config.ai.api_key
             /\ config.ai.api_key = "" =>
                   /\ call.sent = 0 /\ call.responses = <<>>
                   /\ call.commit_calls = <<>>
                   /\ call.pc = "done"
                   /\ IF call.op = "explain"
                      THEN ~call.outcome.val.ok /\ ~Panicked(call.outcome.val)
                      ELSE /\ call.exit = "err"
                           /\ call.generated.some /\ ~call.generated.val.ok

C30_Witness ==
    /\ call.op = "config"
    /\ call.config.val.ai.api_key = "sk-ant-two"
    /\ call.output[4][2] = "********"
    /\ \E other \in Configs : DifferOnlyInKey(call.config.val, other)

=============================================================================
